---- MODULE Spec2Model ----
(***************************************************************************)
(* A model of the Power Query "M" lineage resolver of                      *)
(* datahub/ingestion/source/powerbi/m_query/resolver.py, of the stale      *)
(* entity removal handler of state/stale_entity_removal_handler.py and of  *)
(* the usage aggregator of usage/usage_common.py, each with a              *)
(* specification of its own.                                               *)
(*                                                                         *)
(* A string is a sequence of atoms.  The characters the code strips or     *)
(* splits on (the double quote, the blank, the dot, the slash, the comma)  *)
(* are atoms of their own; every other atom is a run of ordinary           *)
(* characters.  None is modelled per type: 0 for an accessor reference,    *)
(* the empty sequence for an optional tree.                                *)
(***************************************************************************)
EXTENDS Integers, Sequences, FiniteSets, TLC

DQ == "\""
WS == " "
Dot == "."
Slash == "/"
Comma == ","

\* ------------------------------------------------------------------------
\* Bounds of the model.
\* ------------------------------------------------------------------------

\* The longest chain of item-selector statements in front of a call.
MaxSel == 3
\* How many times the caller invokes resolve_to_data_platform_table_list.
MaxRuns == 2
\* The recursion depth of internal() beyond which the model stops following
\* a walk (only a cyclic statement set gets there).
MaxDepth == 6
\* How many warnings another resolver reports to the shared reporter.
MaxOther == 1
\* How many events the usage aggregator is given.
MaxEvents == 3

\* ------------------------------------------------------------------------
\* Python's str and list helpers.
\* ------------------------------------------------------------------------

RECURSIVE LStrip(_, _)
LStrip(s, c) ==
    IF s # <<>> /\ Head(s) = c THEN LStrip(Tail(s), c) ELSE s

RECURSIVE RStrip(_, _)
RStrip(s, c) ==
    IF s # <<>> /\ s[Len(s)] = c THEN RStrip(SubSeq(s, 1, Len(s) - 1), c) ELSE s

\* str.strip(c)
Strip(s, c) == RStrip(LStrip(s, c), c)

\* str.split(c): one more part than there are occurrences of c.
RECURSIVE Split(_, _)
Split(s, c) ==
    IF \E i \in 1..Len(s) : s[i] = c
    THEN LET i == CHOOSE j \in 1..Len(s) :
                    s[j] = c /\ \A k \in 1..(j - 1) : s[k] # c
         IN  <<SubSeq(s, 1, i - 1)>> \o Split(SubSeq(s, i + 1, Len(s)), c)
    ELSE <<s>>

\* f"{a}.{b}.{c}"
DotJoin(a, b, c) == a \o <<Dot>> \o b \o <<Dot>> \o c

RECURSIVE Concat(_)
Concat(ss) == IF ss = <<>> THEN <<>> ELSE Head(ss) \o Concat(Tail(ss))

\* ------------------------------------------------------------------------
\* tree_function: the queries over the parse tree.
\* ------------------------------------------------------------------------

\* Every token's text with the quote characters at its two ends removed.
strip_char_from_list(values) ==
    [i \in 1..Len(values) |-> Strip(values[i], DQ)]

\* The tokens that are not blank.
NotBlank(item) == Strip(item, WS) # <<>>
remove_whitespaces_from_list(values) == SelectSeq(values, NotBlank)

\* The tokens below an argument list: those of its arguments, in order.
ArgTokens(arg_list) ==
    Concat([i \in 1..Len(arg_list) |-> arg_list[i].tokens])

\* The tokens below a subtree; a token that names a declared query
\* parameter is replaced by the parameter's value.
token_values(tokens, params) ==
    [i \in 1..Len(tokens) |->
        IF tokens[i] \in DOMAIN params THEN params[tokens[i]] ELSE tokens[i]]

NoParams == [x \in {} |-> <<>>]

\* ------------------------------------------------------------------------
\* The data classes.
\* ------------------------------------------------------------------------

\* DataPlatformTable
DataPlatformTable(name, full_name, datasource_server, data_platform_pair) ==
    [name |-> name, full_name |-> full_name,
     datasource_server |-> datasource_server,
     data_platform_pair |-> data_platform_pair]

\* DataAccessFunctionDetail; identifier_accessor is a reference into the
\* heap of IdentifierAccessor objects, 0 for None.
DataAccessFunctionDetail(arg_list, data_access_function_name, identifier_accessor) ==
    [arg_list |-> arg_list,
     data_access_function_name |-> data_access_function_name,
     identifier_accessor |-> identifier_accessor]

\* IdentifierAccessor
IdentifierAccessor(identifier, items, next) ==
    [identifier |-> identifier, items |-> items, next |-> next]

\* What a call of a strategy ends with: the list it returns, or the
\* exception that leaves it.
Return(tables) == [exc |-> "", tables |-> tables]
Raise(exc) == [exc |-> exc, tables |-> <<>>]

\* ------------------------------------------------------------------------
\* The strategies (AbstractDataPlatformTableCreator and its subclasses).
\* h is the heap of IdentifierAccessor objects, d the detail.
\* ------------------------------------------------------------------------

get_db_detail_from_argument(arg_list) ==
    LET arguments == strip_char_from_list(
                         remove_whitespaces_from_list(ArgTokens(arg_list)))
    IN  IF Len(arguments) < 2
        THEN [none |-> TRUE, server |-> <<>>, db_name |-> <<>>]
        ELSE [none |-> FALSE, server |-> arguments[1], db_name |-> arguments[2]]

\* two_level_access_pattern with the two keys of the accessor exchanged.
two_level_access_pattern_swapped(h, d, pair) ==
    LET a == get_db_detail_from_argument(d.arg_list)
        acc == d.identifier_accessor
    IN  IF a.none THEN Return(<<>>)
        ELSE IF acc = 0 THEN Raise("AttributeError")
        ELSE IF <<"Schema">> \notin DOMAIN h[acc].items THEN Raise("KeyError")
        ELSE IF <<"Item">> \notin DOMAIN h[acc].items THEN Raise("KeyError")
        ELSE LET schema_name == h[acc].items[<<"Item">>]
                 table_name == h[acc].items[<<"Schema">>]
                 full_table_name == DotJoin(a.db_name, schema_name, table_name)
             IN  Return(<<DataPlatformTable(table_name, full_table_name,
                                            a.server, pair)>>)

two_level_access_pattern(h, d, pair) ==
    LET a == get_db_detail_from_argument(d.arg_list)
        acc == d.identifier_accessor
    IN  IF a.none THEN Return(<<>>)
        ELSE IF acc = 0 THEN Raise("AttributeError")
        ELSE IF <<"Schema">> \notin DOMAIN h[acc].items THEN Raise("KeyError")
        ELSE IF <<"Item">> \notin DOMAIN h[acc].items THEN Raise("KeyError")
        ELSE LET schema_name == h[acc].items[<<"Schema">>]
                 table_name == h[acc].items[<<"Item">>]
                 full_table_name == DotJoin(a.db_name, schema_name, table_name)
             IN  Return(<<DataPlatformTable(table_name, full_table_name,
                                            a.server, pair)>>)

Postgres_create_dataplatform_tables(h, d) ==
    two_level_access_pattern(h, d, "POSTGRES_SQL")

\* native_sql_parser.get_tables: the SQL text is modelled by the names of
\* the tables it reads, separated by commas.
get_tables(sql) == IF sql = <<>> THEN <<>> ELSE Split(sql, Comma)

\* MSSql_table with the schema of a bare name defaulting to "public".
MSSql_table_public(table, db_name, server) ==
    LET parts == Split(table, Dot)
        schema_and_table == IF Len(parts) = 1 THEN <<<<"public">>>> \o parts ELSE parts
    IN  DataPlatformTable(schema_and_table[2],
                          DotJoin(db_name, schema_and_table[1], schema_and_table[2]),
                          server, "MS_SQL")

\* One pass of the loop over the extractor's tables in the MS-SQL strategy.
MSSql_table(table, db_name, server) ==
    LET parts == Split(table, Dot)
        schema_and_table == IF Len(parts) = 1 THEN <<<<"dbo">>>> \o parts ELSE parts
    IN  DataPlatformTable(schema_and_table[2],
                          DotJoin(db_name, schema_and_table[1], schema_and_table[2]),
                          server, "MS_SQL")

MSSql_create_dataplatform_tables(h, d) ==
    LET arguments == strip_char_from_list(
                         remove_whitespaces_from_list(ArgTokens(d.arg_list)))
    IN  IF Len(arguments) = 2 THEN two_level_access_pattern(h, d, "MS_SQL")
        ELSE IF Len(arguments) >= 4 /\ arguments[3] # <<"Query">> THEN Return(<<>>)
        ELSE IF Len(arguments) < 4 THEN Raise("IndexError")
        ELSE LET tables == get_tables(arguments[4])
             IN  Return([i \in 1..Len(tables) |->
                            MSSql_table(tables[i], arguments[2], arguments[1])])

\* _get_server_and_db_name without the cut of the database name at the dot.
Oracle_get_server_and_db_name_uncut(value) ==
    LET splitter_result == Split(value, Slash)
    IN  IF Len(splitter_result) # 2
        THEN [none |-> TRUE, server |-> <<>>, db_name |-> <<>>]
        ELSE [none |-> FALSE,
              server |-> strip_char_from_list(<<splitter_result[1]>>)[1],
              db_name |-> splitter_result[2]]

Oracle_get_server_and_db_name(value) ==
    LET splitter_result == Split(value, Slash)
    IN  IF Len(splitter_result) # 2
        THEN [none |-> TRUE, server |-> <<>>, db_name |-> <<>>]
        ELSE [none |-> FALSE,
              server |-> strip_char_from_list(<<splitter_result[1]>>)[1],
              db_name |-> Split(splitter_result[2], Dot)[1]]

Oracle_create_dataplatform_tables(h, d) ==
    LET arguments == remove_whitespaces_from_list(ArgTokens(d.arg_list))
        acc == d.identifier_accessor
    IN  IF Len(arguments) = 0 THEN Raise("IndexError")
        ELSE LET a == Oracle_get_server_and_db_name(arguments[1])
             IN  IF a.none THEN Return(<<>>)
                 ELSE IF acc = 0 THEN Raise("AttributeError")
                 ELSE IF <<"Schema">> \notin DOMAIN h[acc].items THEN Raise("KeyError")
                 ELSE IF h[acc].next = 0 THEN Raise("AttributeError")
                 ELSE IF <<"Name">> \notin DOMAIN h[h[acc].next].items
                      THEN Raise("KeyError")
                 ELSE LET schema_name == h[acc].items[<<"Schema">>]
                          table_name == h[h[acc].next].items[<<"Name">>]
                      IN  Return(<<DataPlatformTable(
                                      table_name,
                                      DotJoin(a.db_name, schema_name, table_name),
                                      a.server, "ORACLE")>>)

\* The frames of a chain, from the head along next.
RECURSIVE Chain(_, _)
Chain(h, acc) == IF acc = 0 THEN <<>> ELSE <<acc>> \o Chain(h, h[acc].next)

\* value_dict when the loop stops after the head of the chain.
Databrick_value_dict_head(h, fs) ==
    IF fs = <<>> THEN [k \in {} |-> <<>>]
    ELSE (h[fs[1]].items[<<"Kind">>] :> h[fs[1]].items[<<"Name">>])

\* value_dict after the frames fs have been read, each one's Kind mapped to
\* its Name, a later frame overwriting an earlier one.
RECURSIVE Databrick_value_dict(_, _)
Databrick_value_dict(h, fs) ==
    IF fs = <<>> THEN [k \in {} |-> <<>>]
    ELSE LET rest == Databrick_value_dict(h, SubSeq(fs, 1, Len(fs) - 1))
             items == h[fs[Len(fs)]].items
         IN  [k \in DOMAIN rest \cup {items[<<"Kind">>]} |->
                 IF k = items[<<"Kind">>] THEN items[<<"Name">>] ELSE rest[k]]

Databrick_create_dataplatform_tables(h, d) ==
    LET fs == Chain(h, d.identifier_accessor)
    IN  IF \E i \in 1..Len(fs) : {<<"Kind">>, <<"Name">>} \ DOMAIN h[fs[i]].items # {}
        THEN Raise("KeyError")
        ELSE LET value_dict == Databrick_value_dict(h, fs)
                 a == get_db_detail_from_argument(d.arg_list)
             IN  IF {<<"Database">>, <<"Schema">>, <<"Table">>} \ DOMAIN value_dict # {}
                 THEN Raise("KeyError")
                 ELSE LET db_name == value_dict[<<"Database">>]
                          schema_name == value_dict[<<"Schema">>]
                          table_name == value_dict[<<"Table">>]
                      IN  Return(<<DataPlatformTable(
                                      table_name,
                                      DotJoin(db_name, schema_name, table_name),
                                      IF a.none THEN <<>> ELSE a.server,
                                      "DATABRICK_SQL")>>)

\* The three-step strategy reading the chain from the other end: the table
\* from the head and the database from the last frame.
ThreeStep_create_dataplatform_tables_reversed(h, d, pair, bigquery) ==
    LET arguments == remove_whitespaces_from_list(ArgTokens(d.arg_list))
        acc == d.identifier_accessor
    IN  IF acc = 0 THEN Raise("AttributeError")
        ELSE IF <<"Name">> \notin DOMAIN h[acc].items THEN Raise("KeyError")
        ELSE IF h[acc].next = 0 THEN Raise("AttributeError")
        ELSE IF <<"Name">> \notin DOMAIN h[h[acc].next].items THEN Raise("KeyError")
        ELSE IF h[h[acc].next].next = 0 THEN Raise("AttributeError")
        ELSE IF <<"Name">> \notin DOMAIN h[h[h[acc].next].next].items
             THEN Raise("KeyError")
        ELSE IF ~bigquery /\ Len(arguments) = 0 THEN Raise("IndexError")
        ELSE LET table_name == h[acc].items[<<"Name">>]
                 schema_name == h[h[acc].next].items[<<"Name">>]
                 db_name == h[h[h[acc].next].next].items[<<"Name">>]
                 server == IF bigquery THEN h[acc].items[<<"Name">>]
                           ELSE strip_char_from_list(<<arguments[1]>>)[1]
             IN  Return(<<DataPlatformTable(
                             table_name,
                             DotJoin(db_name, schema_name, table_name),
                             server, pair)>>)

\* DefaultThreeStepDataAccessSources.create_dataplatform_tables; bigquery
\* tells GoogleBigQueryDataPlatformTableCreator.get_datasource_server from
\* the inherited one.
ThreeStep_create_dataplatform_tables(h, d, pair, bigquery) ==
    LET arguments == remove_whitespaces_from_list(ArgTokens(d.arg_list))
        acc == d.identifier_accessor
    IN  IF acc = 0 THEN Raise("AttributeError")
        ELSE IF <<"Name">> \notin DOMAIN h[acc].items THEN Raise("KeyError")
        ELSE IF h[acc].next = 0 THEN Raise("AttributeError")
        ELSE IF <<"Name">> \notin DOMAIN h[h[acc].next].items THEN Raise("KeyError")
        ELSE IF h[h[acc].next].next = 0 THEN Raise("AttributeError")
        ELSE IF <<"Name">> \notin DOMAIN h[h[h[acc].next].next].items
             THEN Raise("KeyError")
        ELSE IF ~bigquery /\ Len(arguments) = 0 THEN Raise("IndexError")
        ELSE LET db_name == h[acc].items[<<"Name">>]
                 schema_name == h[h[acc].next].items[<<"Name">>]
                 table_name == h[h[h[acc].next].next].items[<<"Name">>]
                 server == IF bigquery THEN h[acc].items[<<"Name">>]
                           ELSE strip_char_from_list(<<arguments[1]>>)[1]
             IN  Return(<<DataPlatformTable(
                             table_name,
                             DotJoin(db_name, schema_name, table_name),
                             server, pair)>>)

Snowflake_create_dataplatform_tables(h, d) ==
    ThreeStep_create_dataplatform_tables(h, d, "SNOWFLAKE", FALSE)

GoogleBigQuery_create_dataplatform_tables(h, d) ==
    ThreeStep_create_dataplatform_tables(h, d, "GOOGLE_BIGQUERY", TRUE)

\* The Redshift strategy with the two frames exchanged.
AmazonRedshift_create_dataplatform_tables_swapped(h, d) ==
    LET a == get_db_detail_from_argument(d.arg_list)
        acc == d.identifier_accessor
    IN  IF a.none THEN Return(<<>>)
        ELSE IF acc = 0 THEN Raise("AttributeError")
        ELSE IF <<"Name">> \notin DOMAIN h[acc].items THEN Raise("KeyError")
        ELSE IF h[acc].next = 0 THEN Raise("AttributeError")
        ELSE IF <<"Name">> \notin DOMAIN h[h[acc].next].items THEN Raise("KeyError")
        ELSE LET table_name == h[acc].items[<<"Name">>]
                 schema_name == h[h[acc].next].items[<<"Name">>]
             IN  Return(<<DataPlatformTable(
                             table_name,
                             DotJoin(a.db_name, schema_name, table_name),
                             a.server, "AMAZON_REDSHIFT")>>)

\* AmazonRedshiftDataPlatformTableCreator.create_dataplatform_tables

AmazonRedshift_create_dataplatform_tables(h, d) ==
    LET a == get_db_detail_from_argument(d.arg_list)
        acc == d.identifier_accessor
    IN  IF a.none THEN Return(<<>>)
        ELSE IF acc = 0 THEN Raise("AttributeError")
        ELSE IF <<"Name">> \notin DOMAIN h[acc].items THEN Raise("KeyError")
        ELSE IF h[acc].next = 0 THEN Raise("AttributeError")
        ELSE IF <<"Name">> \notin DOMAIN h[h[acc].next].items THEN Raise("KeyError")
        ELSE LET schema_name == h[acc].items[<<"Name">>]
                 table_name == h[h[acc].next].items[<<"Name">>]
             IN  Return(<<DataPlatformTable(
                             table_name,
                             DotJoin(a.db_name, schema_name, table_name),
                             a.server, "AMAZON_REDSHIFT")>>)

\* len() of a str: the atoms of one character, of two, and the longer
\* ones, which count as three.
OneChar == {DQ, WS, Dot, Slash, Comma, "h", "d", "s", "n", "t", "u", "x"}
TwoChars == {"ab"}
RECURSIVE StrLen(_)
StrLen(s) ==
    IF s = <<>> THEN 0
    ELSE (IF Head(s) \in OneChar THEN 1 ELSE IF Head(s) \in TwoChars THEN 2 ELSE 3)
         + StrLen(Tail(s))

\* NativeQueryDataPlatformTableCreator.SUPPORTED_NATIVE_QUERY_DATA_PLATFORM
SUPPORTED_NATIVE_QUERY_DATA_PLATFORM ==
    (<<"Snowflake">> :> "SNOWFLAKE") @@ (<<"AmazonRedshift">> :> "AMAZON_REDSHIFT")

\* NativeQueryDataPlatformTableCreator.current_data_platform, the attribute
\* of the class.
NativeQuery_current_data_platform == "SNOWFLAKE"

\* get_platform_pair that reads the attribute of the class.
NativeQuery_get_platform_pair_of_class(current_data_platform) ==
    NativeQuery_current_data_platform

\* NativeQueryDataPlatformTableCreator.get_platform_pair of an instance
\* whose attribute current_data_platform has been set.
NativeQuery_get_platform_pair(current_data_platform) ==
    current_data_platform

\* The Native Query strategy without the test for three parts: every name
\* of the extractor gives a table, named by its last part.
NativeQuery_create_dataplatform_tables_unfiltered(h, d) ==
    LET flat_argument_list == d.arg_list
    IN  IF Len(flat_argument_list) # 2 THEN Return(<<>>)
        ELSE
        LET data_access_tokens ==
                remove_whitespaces_from_list(flat_argument_list[1].tokens)
            sql_tokens == strip_char_from_list(
                              remove_whitespaces_from_list(flat_argument_list[2].tokens))
        IN  IF Len(data_access_tokens) = 0 THEN Raise("IndexError")
            ELSE IF StrLen(data_access_tokens[1]) < 3 THEN Return(<<>>)
            ELSE IF data_access_tokens[1] \notin DOMAIN SUPPORTED_NATIVE_QUERY_DATA_PLATFORM
                 THEN Raise("KeyError")
            ELSE IF Len(sql_tokens) = 0 THEN Raise("IndexError")
            ELSE
            LET current_data_platform ==
                    SUPPORTED_NATIVE_QUERY_DATA_PLATFORM[data_access_tokens[1]]
                kept == get_tables(sql_tokens[1])
            IN  IF kept # <<>> /\ Len(data_access_tokens) < 3 THEN Raise("IndexError")
                ELSE Return([i \in 1..Len(kept) |->
                        DataPlatformTable(
                            Split(kept[i], Dot)[Len(Split(kept[i], Dot))], kept[i],
                            strip_char_from_list(<<data_access_tokens[3]>>)[1],
                            NativeQuery_get_platform_pair(current_data_platform))])

NativeQuery_create_dataplatform_tables(h, d) ==
    LET flat_argument_list == d.arg_list
    IN  IF Len(flat_argument_list) # 2 THEN Return(<<>>)
        ELSE
        LET data_access_tokens ==
                remove_whitespaces_from_list(flat_argument_list[1].tokens)
            sql_tokens == strip_char_from_list(
                              remove_whitespaces_from_list(flat_argument_list[2].tokens))
        IN  IF Len(data_access_tokens) = 0 THEN Raise("IndexError")
            ELSE IF StrLen(data_access_tokens[1]) < 3 THEN Return(<<>>)
            ELSE IF data_access_tokens[1] \notin DOMAIN SUPPORTED_NATIVE_QUERY_DATA_PLATFORM
                 THEN Raise("KeyError")
            ELSE IF Len(sql_tokens) = 0 THEN Raise("IndexError")
            ELSE
            LET current_data_platform ==
                    SUPPORTED_NATIVE_QUERY_DATA_PLATFORM[data_access_tokens[1]]
                tables == get_tables(sql_tokens[1])
                ThreeParts(table) == Len(Split(table, Dot)) = 3
                kept == SelectSeq(tables, ThreeParts)
            IN  IF kept # <<>> /\ Len(data_access_tokens) < 3 THEN Raise("IndexError")
                ELSE Return([i \in 1..Len(kept) |->
                        DataPlatformTable(
                            Split(kept[i], Dot)[3], kept[i],
                            strip_char_from_list(<<data_access_tokens[3]>>)[1],
                            NativeQuery_get_platform_pair(current_data_platform))])

\* ------------------------------------------------------------------------
\* The registry (FunctionName, SupportedResolver).
\* ------------------------------------------------------------------------

\* SupportedResolver, in declaration order: the member and its function name.
SupportedResolver ==
    << [member |-> "DATABRICK_QUERY",  function_name |-> <<"Databricks.Catalogs">>],
       [member |-> "POSTGRES_SQL",     function_name |-> <<"PostgreSQL.Database">>],
       [member |-> "ORACLE",           function_name |-> <<"Oracle.Database">>],
       [member |-> "SNOWFLAKE",        function_name |-> <<"Snowflake.Databases">>],
       [member |-> "MS_SQL",           function_name |-> <<"Sql.Database">>],
       [member |-> "GOOGLE_BIG_QUERY", function_name |-> <<"GoogleBigQuery.Database">>],
       [member |-> "AMAZON_REDSHIFT",  function_name |-> <<"AmazonRedshift.Database">>],
       [member |-> "NATIVE_QUERY",     function_name |-> <<"Value.NativeQuery">>] >>

get_function_names ==
    [i \in 1..Len(SupportedResolver) |-> SupportedResolver[i].function_name]

\* The first member with the function name, "" for None.
get_resolver(function_name) ==
    IF \E i \in 1..Len(SupportedResolver) :
           SupportedResolver[i].function_name = function_name
    THEN SupportedResolver[
             CHOOSE i \in 1..Len(SupportedResolver) :
                 /\ SupportedResolver[i].function_name = function_name
                 /\ \A j \in 1..(i - 1) :
                        SupportedResolver[j].function_name # function_name].member
    ELSE ""

\* supported_resolver.get_table_full_name_creator()().create_dataplatform_tables(f_detail)
create_dataplatform_tables(member, h, d) ==
    CASE member = "DATABRICK_QUERY"  -> Databrick_create_dataplatform_tables(h, d)
      [] member = "POSTGRES_SQL"     -> Postgres_create_dataplatform_tables(h, d)
      [] member = "ORACLE"           -> Oracle_create_dataplatform_tables(h, d)
      [] member = "SNOWFLAKE"        -> Snowflake_create_dataplatform_tables(h, d)
      [] member = "MS_SQL"           -> MSSql_create_dataplatform_tables(h, d)
      [] member = "GOOGLE_BIG_QUERY" -> GoogleBigQuery_create_dataplatform_tables(h, d)
      [] member = "AMAZON_REDSHIFT"  -> AmazonRedshift_create_dataplatform_tables(h, d)
      [] member = "NATIVE_QUERY"     -> NativeQuery_create_dataplatform_tables(h, d)

\* ------------------------------------------------------------------------
\* The parse tree.  The resolver sees it only through tree_function, so it
\* is modelled by what those queries answer: the output variable of the
\* in-expression and, per variable, its variable statement.
\*
\* A statement has kind "invoke" (first_invoke_expression_func finds an
\* invoke expression), "expression" (an expression without one) or
\* "no-expression" (first_expression_func finds nothing).  An optional
\* subtree is <<>> when absent and <<x>> when present.  An argument is
\* [expression, tokens]: whether a list expression, a type expression or
\* neither is found below it, and its tokens.
\* ------------------------------------------------------------------------

InvokeStatement(function_name, arg_list) ==
    [kind |-> "invoke", function_name |-> function_name, arg_list |-> arg_list,
     item_selector |-> <<>>, identifier |-> <<>>]

ExpressionStatement(item_selector, identifier) ==
    [kind |-> "expression", function_name |-> <<>>, arg_list |-> <<>>,
     item_selector |-> item_selector, identifier |-> identifier]

NoExpressionStatement ==
    [kind |-> "no-expression", function_name |-> <<>>, arg_list |-> <<>>,
     item_selector |-> <<>>, identifier |-> <<>>]

Argument(expression, tokens) == [expression |-> expression, tokens |-> tokens]

VARIABLES
    parse_tree,             \* self.parse_tree: [output_variable, statements]
    parameters,             \* self.parameters
    reporter,               \* self.reporter: the warnings reported so far
    pc,                     \* where resolve_to_data_platform_table_list is
    calls,                  \* the calls of internal() still to run, first first
    heap,                   \* the IdentifierAccessor objects created
    table_links,            \* table_links of create_data_access_functional_detail
    f_index,                \* the position of the loop over table_links
    data_platform_tables,   \* data_platform_tables
    results,                \* what each finished call gave its caller
    source_configured,      \* source.is_stateful_ingestion_configured()
    stateful_ingestion_config, \* self.stateful_ingestion_config, <<>> for None
    last_checkpoint,        \* the last successful checkpoint, <<>> for None
    cur_checkpoint,         \* the checkpoint of this run, <<>> for None
    urns_to_skip,           \* self._urns_to_skip
    added_urns,             \* the urns passed to add_entity_to_state so far
    report,                 \* source.get_report(): failures and soft deletes
    workunits,              \* what gen_removed_entity_workunits yielded
    generated,              \* how gen_removed_entity_workunits ended
    usage_config,           \* UsageAggregator.config
    aggregation             \* UsageAggregator.aggregation

\* The state of the M-Query resolver.
resolver_vars ==
    <<parse_tree, parameters, reporter, pc, calls, heap, table_links,
      f_index, data_platform_tables, results>>

\* The state of the stale entity removal handler and of its source.
handler_vars ==
    <<source_configured, stateful_ingestion_config, last_checkpoint,
      cur_checkpoint, urns_to_skip, added_urns, report, workunits, generated>>

\* The state of the usage aggregator.
usage_vars == <<usage_config, aggregation>>

vars == <<resolver_vars, handler_vars, usage_vars>>

\* ------------------------------------------------------------------------
\* MQueryResolver
\* ------------------------------------------------------------------------

\* dict(zip(iterator, iterator)): the tokens taken two by two, a later pair
\* with the same key replacing an earlier one, an odd last token dropped.
TokensToDict(tokens) ==
    LET n == Len(tokens) \div 2
    IN  [k \in {tokens[2 * i - 1] : i \in 1..n} |->
            tokens[2 * (CHOOSE i \in 1..n :
                            /\ tokens[2 * i - 1] = k
                            /\ \A j \in (i + 1)..n : tokens[2 * j - 1] # k)]]

\* get_item_selector_tokens: [none, identifier, key_vs_value]
get_item_selector_tokens(statement, params) ==
    IF statement.item_selector = <<>> \/ statement.identifier = <<>>
    THEN [none |-> TRUE, identifier |-> <<>>, key_vs_value |-> NoParams]
    ELSE LET tokens == strip_char_from_list(
                           remove_whitespaces_from_list(
                               token_values(statement.item_selector[1], params)))
         IN  [none |-> FALSE,
              identifier |-> Concat(statement.identifier[1]),
              key_vs_value |-> TokensToDict(tokens)]

\* _process_invoke_expression without the test of the function name against
\* the data-access functions: every call with an argument list is a detail.
process_invoke_expression_any(invoke_expression) ==
    LET data_access_func == invoke_expression.function_name
        arg_list == invoke_expression.arg_list
    IN  IF arg_list = <<>>
        THEN [kind |-> "none",
              warnings |-> <<"arg-list: Argument list not found for data-access-function">>,
              tokens |-> <<>>, detail |-> <<>>]
        ELSE [kind |-> "detail", warnings |-> <<>>, tokens |-> <<>>,
              detail |-> <<DataAccessFunctionDetail(arg_list[1], data_access_func, 0)>>]

\* _process_invoke_expression that reports nothing for an unsupported first
\* argument.
process_invoke_expression_silent(invoke_expression) ==
    LET data_access_func == invoke_expression.function_name
        arg_list == invoke_expression.arg_list
        None(warnings) ==
            [kind |-> "none", warnings |-> warnings, tokens |-> <<>>, detail |-> <<>>]
    IN  IF \E i \in 1..Len(get_function_names) : get_function_names[i] = data_access_func
        THEN IF arg_list = <<>>
             THEN None(<<"arg-list: Argument list not found for data-access-function">>)
             ELSE [kind |-> "detail", warnings |-> <<>>, tokens |-> <<>>,
                   detail |-> <<DataAccessFunctionDetail(arg_list[1], data_access_func, 0)>>]
        ELSE IF arg_list = <<>>
             THEN None(<<"variable-statement: Function invocation without argument">>)
        ELSE IF Len(arg_list[1]) = 0 THEN None(<<>>)
        ELSE IF arg_list[1][1].expression \notin {"list", "type"} THEN None(<<>>)
        ELSE [kind |-> "tokens", warnings |-> <<>>, detail |-> <<>>,
              tokens |-> remove_whitespaces_from_list(
                             token_values(arg_list[1][1].tokens, NoParams))]

\* _process_invoke_expression: a DataAccessFunctionDetail ("detail"), the
\* tokens of the first argument ("tokens") or None ("none"), with the
\* warnings it reports.
process_invoke_expression(invoke_expression) ==
    LET data_access_func == invoke_expression.function_name
        arg_list == invoke_expression.arg_list
        None(warnings) ==
            [kind |-> "none", warnings |-> warnings, tokens |-> <<>>, detail |-> <<>>]
    IN  IF \E i \in 1..Len(get_function_names) : get_function_names[i] = data_access_func
        THEN IF arg_list = <<>>
             THEN None(<<"arg-list: Argument list not found for data-access-function">>)
             ELSE [kind |-> "detail", warnings |-> <<>>, tokens |-> <<>>,
                   detail |-> <<DataAccessFunctionDetail(arg_list[1], data_access_func, 0)>>]
        ELSE IF arg_list = <<>>
             THEN None(<<"variable-statement: Function invocation without argument">>)
        ELSE IF Len(arg_list[1]) = 0 THEN None(<<>>)
        ELSE IF arg_list[1][1].expression \notin {"list", "type"}
             THEN None(<<"variable-statement: Function argument expression is not supported">>)
        ELSE [kind |-> "tokens", warnings |-> <<>>, detail |-> <<>>,
              tokens |-> remove_whitespaces_from_list(
                             token_values(arg_list[1][1].tokens, NoParams))]

\* _create_or_update_identifier_accessor that never links the new object to
\* the accessor it was given.
create_or_update_identifier_accessor_unlinked(identifier_accessor, new_identifier, key_vs_value) ==
    IdentifierAccessor(new_identifier, key_vs_value, 0)

\* _create_or_update_identifier_accessor: the new object; the heap gets it
\* at the next free reference.
create_or_update_identifier_accessor(identifier_accessor, new_identifier, key_vs_value) ==
    IF identifier_accessor = 0
    THEN IdentifierAccessor(new_identifier, key_vs_value, 0)
    ELSE IdentifierAccessor(new_identifier, key_vs_value, identifier_accessor)

\* tree_function.get_variable_statement: the statement of a variable, when
\* the tree has one.
HasStatement(identifier) == identifier \in DOMAIN parse_tree.statements
get_variable_statement(identifier) == parse_tree.statements[identifier]

\* A call of internal(): its two arguments and its recursion depth.
Call(current_identifier, identifier_accessor, depth) ==
    [current_identifier |-> current_identifier,
     identifier_accessor |-> identifier_accessor, depth |-> depth]

\* The call of internal() that runs next.
Running == pc = "walk" /\ calls # <<>> /\ Head(calls).depth <= MaxDepth

\* What the caller gets from a finished call.
Result(exc, tables, warnings) ==
    [exc |-> exc, tables |-> tables, warnings |-> warnings]

\* Resolve with data_platform_tables kept from one call to the next.
Resolve_accumulating ==
    /\ pc \in {"idle", "returned", "raised"}
    /\ Len(results) < MaxRuns
    /\ f_index' = 1
    /\ heap' = <<>>
    /\ table_links' = <<>>
    /\ IF parse_tree.output_variable = <<>>
       THEN /\ reporter' = Append(reporter,
                    "output-variable: output-variable not found in table expression")
            /\ pc' = "returned"
            /\ calls' = <<>>
            /\ results' = Append(results, Result("", <<>>, Len(reporter')))
       ELSE /\ pc' = "walk"
            /\ calls' = <<Call(parse_tree.output_variable[1], 0, 1)>>
            /\ UNCHANGED <<reporter, results>>
    /\ UNCHANGED <<handler_vars, usage_vars, parse_tree, parameters, data_platform_tables>>

\* resolve_to_data_platform_table_list, up to the call of
\* create_data_access_functional_detail; internal(identifier, None) is the
\* first call to run.
Resolve ==
    /\ pc \in {"idle", "returned", "raised"}
    /\ Len(results) < MaxRuns
    /\ data_platform_tables' = <<>>
    /\ f_index' = 1
    /\ heap' = <<>>
    /\ table_links' = <<>>
    /\ IF parse_tree.output_variable = <<>>
       THEN /\ reporter' = Append(reporter,
                    "output-variable: output-variable not found in table expression")
            /\ pc' = "returned"
            /\ calls' = <<>>
            /\ results' = Append(results, Result("", <<>>, Len(reporter')))
       ELSE /\ pc' = "walk"
            /\ calls' = <<Call(parse_tree.output_variable[1], 0, 1)>>
            /\ UNCHANGED <<reporter, results>>
    /\ UNCHANGED <<handler_vars, usage_vars, parse_tree, parameters>>

\* InternalNoStatement that gives up the whole walk, the calls for the other
\* tokens included.
InternalNoStatement_fatal ==
    /\ Running
    /\ ~HasStatement(Head(calls).current_identifier)
    /\ reporter' = Append(reporter,
           "variable-statement: output variable statement not found in table expression")
    /\ calls' = <<>>
    /\ UNCHANGED <<handler_vars, usage_vars, parse_tree, parameters, pc, heap, table_links, f_index,
                   data_platform_tables, results>>

\* internal(): no statement has current_identifier on its left-hand side.
InternalNoStatement ==
    /\ Running
    /\ ~HasStatement(Head(calls).current_identifier)
    /\ reporter' = Append(reporter,
           "variable-statement: output variable statement not found in table expression")
    /\ calls' = Tail(calls)
    /\ UNCHANGED <<handler_vars, usage_vars, parse_tree, parameters, pc, heap, table_links, f_index,
                   data_platform_tables, results>>

\* internal(): the statement has no expression.
InternalNoExpression ==
    /\ Running
    /\ HasStatement(Head(calls).current_identifier)
    /\ get_variable_statement(Head(calls).current_identifier).kind = "no-expression"
    /\ calls' = Tail(calls)
    /\ UNCHANGED <<handler_vars, usage_vars, parse_tree, parameters, reporter, pc, heap, table_links, f_index,
                   data_platform_tables, results>>

\* internal(): an invoke expression for which _process_invoke_expression
\* returns None.
InternalInvokeNone ==
    /\ Running
    /\ HasStatement(Head(calls).current_identifier)
    /\ LET statement == get_variable_statement(Head(calls).current_identifier)
       IN  /\ statement.kind = "invoke"
           /\ process_invoke_expression(statement).kind = "none"
           /\ reporter' = reporter \o process_invoke_expression(statement).warnings
    /\ calls' = Tail(calls)
    /\ UNCHANGED <<handler_vars, usage_vars, parse_tree, parameters, pc, heap, table_links, f_index,
                   data_platform_tables, results>>

\* InternalDataAccess that remembers the data-access calls it has met: a
\* call met before gives no second detail.
InternalDataAccess_memoised ==
    /\ Running
    /\ HasStatement(Head(calls).current_identifier)
    /\ LET statement == get_variable_statement(Head(calls).current_identifier)
       IN  /\ statement.kind = "invoke"
           /\ process_invoke_expression(statement).kind = "detail"
           /\ LET result == process_invoke_expression(statement).detail[1]
                  met == \E i \in 1..Len(table_links) :
                            /\ table_links[i].data_access_function_name
                                   = result.data_access_function_name
                            /\ table_links[i].arg_list = result.arg_list
              IN  table_links' =
                      IF met THEN table_links
                      ELSE Append(table_links,
                               [result EXCEPT !.identifier_accessor =
                                                  Head(calls).identifier_accessor])
    /\ calls' = Tail(calls)
    /\ UNCHANGED <<handler_vars, usage_vars, parse_tree, parameters, reporter, pc, heap, f_index,
                   data_platform_tables, results>>

\* internal(): a data-access function; the link of a table is completed.
InternalDataAccess ==
    /\ Running
    /\ HasStatement(Head(calls).current_identifier)
    /\ LET statement == get_variable_statement(Head(calls).current_identifier)
       IN  /\ statement.kind = "invoke"
           /\ process_invoke_expression(statement).kind = "detail"
           /\ LET result == process_invoke_expression(statement).detail[1]
              IN  table_links' = Append(table_links,
                      [result EXCEPT !.identifier_accessor =
                                         Head(calls).identifier_accessor])
    /\ calls' = Tail(calls)
    /\ UNCHANGED <<handler_vars, usage_vars, parse_tree, parameters, reporter, pc, heap, f_index,
                   data_platform_tables, results>>

\* ArgumentCalls with the chain reset after the first token, so that the
\* other tables start from an empty chain.
ArgumentCalls_reset(tokens, identifier_accessor, depth) ==
    [i \in 1..Len(tokens) |->
        Call(tokens[i], IF i = 1 THEN identifier_accessor ELSE 0, depth)]

\* The calls internal() makes for the tokens of the first argument, each
\* with the identifier_accessor it was itself called with.
ArgumentCalls(tokens, identifier_accessor, depth) ==
    [i \in 1..Len(tokens) |-> Call(tokens[i], identifier_accessor, depth)]

\* InternalArguments with a guard against the simplest cycle: a token that
\* names the statement itself is not walked.
InternalArguments_guarded ==
    /\ Running
    /\ HasStatement(Head(calls).current_identifier)
    /\ LET statement == get_variable_statement(Head(calls).current_identifier)
           NotItself(token) == token # Head(calls).current_identifier
       IN  /\ statement.kind = "invoke"
           /\ process_invoke_expression(statement).kind = "tokens"
           /\ calls' = ArgumentCalls(
                           SelectSeq(process_invoke_expression(statement).tokens,
                                     NotItself),
                           Head(calls).identifier_accessor,
                           Head(calls).depth + 1)
                       \o Tail(calls)
    /\ UNCHANGED <<handler_vars, usage_vars, parse_tree, parameters, reporter, pc, heap, table_links, f_index,
                   data_platform_tables, results>>

\* InternalArguments that puts a frame of its own in front of the chain, as
\* an item selector does.
InternalArguments_framed ==
    /\ Running
    /\ HasStatement(Head(calls).current_identifier)
    /\ LET statement == get_variable_statement(Head(calls).current_identifier)
       IN  /\ statement.kind = "invoke"
           /\ process_invoke_expression(statement).kind = "tokens"
           /\ heap' = Append(heap,
                         create_or_update_identifier_accessor(
                             Head(calls).identifier_accessor,
                             Head(calls).current_identifier, NoParams))
           /\ calls' = ArgumentCalls(process_invoke_expression(statement).tokens,
                                     Len(heap) + 1,
                                     Head(calls).depth + 1)
                       \o Tail(calls)
    /\ UNCHANGED <<handler_vars, usage_vars, parse_tree, parameters, reporter, pc, table_links, f_index,
                   data_platform_tables, results>>

\* InternalArguments with the recursive call made on the identifier of the
\* statement itself instead of the tokens of the first argument.
InternalArguments_self ==
    /\ Running
    /\ HasStatement(Head(calls).current_identifier)
    /\ LET statement == get_variable_statement(Head(calls).current_identifier)
       IN  /\ statement.kind = "invoke"
           /\ process_invoke_expression(statement).kind = "tokens"
           /\ calls' = <<Call(Head(calls).current_identifier,
                              Head(calls).identifier_accessor,
                              Head(calls).depth + 1)>>
                       \o Tail(calls)
    /\ UNCHANGED <<handler_vars, usage_vars, parse_tree, parameters, reporter, pc, heap, table_links, f_index,
                   data_platform_tables, results>>

\* internal(): some other function; the loop over the tokens of its first
\* argument.
InternalArguments ==
    /\ Running
    /\ HasStatement(Head(calls).current_identifier)
    /\ LET statement == get_variable_statement(Head(calls).current_identifier)
       IN  /\ statement.kind = "invoke"
           /\ process_invoke_expression(statement).kind = "tokens"
           /\ calls' = ArgumentCalls(process_invoke_expression(statement).tokens,
                                     Head(calls).identifier_accessor,
                                     Head(calls).depth + 1)
                       \o Tail(calls)
    /\ UNCHANGED <<handler_vars, usage_vars, parse_tree, parameters, reporter, pc, heap, table_links, f_index,
                   data_platform_tables, results>>

\* internal(): neither an invoke expression nor an item selector with its
\* identifier.
InternalNoItemSelector ==
    /\ Running
    /\ HasStatement(Head(calls).current_identifier)
    /\ LET statement == get_variable_statement(Head(calls).current_identifier)
       IN  /\ statement.kind = "expression"
           /\ get_item_selector_tokens(statement, parameters).none
    /\ calls' = Tail(calls)
    /\ UNCHANGED <<handler_vars, usage_vars, parse_tree, parameters, reporter, pc, heap, table_links, f_index,
                   data_platform_tables, results>>

\* The call internal() makes for an item selector.
SelectorCall(new_identifier, new_identifier_accessor, depth) ==
    Call(new_identifier, new_identifier_accessor, depth)

\* internal(): an item selector; a new IdentifierAccessor in front of the
\* chain, and the walk goes on at the selector's identifier.
InternalItemSelector ==
    /\ Running
    /\ HasStatement(Head(calls).current_identifier)
    /\ LET statement == get_variable_statement(Head(calls).current_identifier)
           selector == get_item_selector_tokens(statement, parameters)
       IN  /\ statement.kind = "expression"
           /\ ~selector.none
           /\ heap' = Append(heap,
                         create_or_update_identifier_accessor(
                             Head(calls).identifier_accessor,
                             selector.identifier, selector.key_vs_value))
           /\ calls' = <<SelectorCall(selector.identifier, Len(heap) + 1,
                                      Head(calls).depth + 1)>>
                       \o Tail(calls)
    /\ UNCHANGED <<handler_vars, usage_vars, parse_tree, parameters, reporter, pc, table_links, f_index,
                   data_platform_tables, results>>

\* create_data_access_functional_detail returns table_links.
ReturnTableLinks ==
    /\ pc = "walk"
    /\ calls = <<>>
    /\ pc' = "resolve"
    /\ f_index' = 1
    /\ UNCHANGED <<handler_vars, usage_vars, parse_tree, parameters, reporter, calls, heap, table_links,
                   data_platform_tables, results>>

\* ResolveDetail with the tables of a detail put in front of those already
\* collected.
ResolveDetail_prepending ==
    /\ pc = "resolve"
    /\ f_index <= Len(table_links)
    /\ LET f_detail == table_links[f_index]
           supported_resolver == get_resolver(f_detail.data_access_function_name)
       IN  IF supported_resolver = ""
           THEN /\ reporter' = Append(reporter,
                        "data-access-function: Resolver not found for data-access-function")
                /\ UNCHANGED data_platform_tables
           ELSE /\ create_dataplatform_tables(supported_resolver, heap, f_detail).exc = ""
                /\ data_platform_tables' =
                       create_dataplatform_tables(supported_resolver, heap, f_detail).tables
                       \o data_platform_tables
                /\ UNCHANGED reporter
    /\ f_index' = f_index + 1
    /\ UNCHANGED <<handler_vars, usage_vars, parse_tree, parameters, pc, calls, heap, table_links, results>>

\* One pass of the loop over table_links that ends normally: the tables of
\* the strategy are added, or a warning when no resolver is found.
ResolveDetail ==
    /\ pc = "resolve"
    /\ f_index <= Len(table_links)
    /\ LET f_detail == table_links[f_index]
           supported_resolver == get_resolver(f_detail.data_access_function_name)
       IN  IF supported_resolver = ""
           THEN /\ reporter' = Append(reporter,
                        "data-access-function: Resolver not found for data-access-function")
                /\ UNCHANGED data_platform_tables
           ELSE /\ create_dataplatform_tables(supported_resolver, heap, f_detail).exc = ""
                /\ data_platform_tables' = data_platform_tables \o
                       create_dataplatform_tables(supported_resolver, heap, f_detail).tables
                /\ UNCHANGED reporter
    /\ f_index' = f_index + 1
    /\ UNCHANGED <<handler_vars, usage_vars, parse_tree, parameters, pc, calls, heap, table_links, results>>

\* One pass of the loop in which the strategy raises: the exception leaves
\* resolve_to_data_platform_table_list.
ResolveRaise ==
    /\ pc = "resolve"
    /\ f_index <= Len(table_links)
    /\ LET f_detail == table_links[f_index]
           supported_resolver == get_resolver(f_detail.data_access_function_name)
       IN  /\ supported_resolver # ""
           /\ create_dataplatform_tables(supported_resolver, heap, f_detail).exc # ""
           /\ results' = Append(results,
                  Result(create_dataplatform_tables(supported_resolver, heap, f_detail).exc,
                         <<>>, Len(reporter)))
    /\ pc' = "raised"
    /\ UNCHANGED <<handler_vars, usage_vars, parse_tree, parameters, reporter, calls, heap, table_links, f_index,
                   data_platform_tables>>

\* resolve_to_data_platform_table_list returns data_platform_tables.
ResolveReturn ==
    /\ pc = "resolve"
    /\ f_index > Len(table_links)
    /\ pc' = "returned"
    /\ results' = Append(results, Result("", data_platform_tables, Len(reporter)))
    /\ UNCHANGED <<handler_vars, usage_vars, parse_tree, parameters, reporter, calls, heap, table_links, f_index,
                   data_platform_tables>>

\* ------------------------------------------------------------------------
\* The table expressions the resolver is run on.
\* ------------------------------------------------------------------------

\* A string literal token, with its quotes.
Quoted(s) == <<DQ>> \o s \o <<DQ>>

\* The names of the variables of an expression.
VariableNames ==
    << <<"v1">>, <<"v2">>, <<"v3">>, <<"v4">>, <<"v5">>, <<"v6">>, <<"v7">>, <<"v8">> >>
Var(i) == VariableNames[i]

\* The declared query parameter, and the two parameter maps.
ParameterName == <<"P">>
ParameterMaps == {NoParams, (ParameterName :> Quoted(<<"n">>))}

\* The tokens of an item selector: {[Schema="s",Item="n"]} and so on.
SchemaItemSelector ==
    << <<"Schema">>, Quoted(<<"s">>), <<WS>>, <<"Item">>, Quoted(<<"n">>) >>
SchemaSelector == << <<"Schema">>, Quoted(<<"s">>) >>
NameTSelector == << <<"Name">>, <<WS>>, Quoted(<<"t">>) >>
NameUSelector == << <<"Name">>, Quoted(<<"u">>) >>
SchemaItemParameterSelector ==
    << <<"Schema">>, Quoted(<<"x">>), <<"Item">>, ParameterName >>
KindDatabaseSelector ==
    << <<"Kind">>, Quoted(<<"Database">>), <<"Name">>, Quoted(<<"d">>) >>
KindSchemaSelector ==
    << <<"Kind">>, Quoted(<<"Schema">>), <<"Name">>, Quoted(<<"s">>) >>
KindTableSelector ==
    << <<"Kind">>, Quoted(<<"Table">>), <<WS>>, <<"Name">>, Quoted(<<"t">>) >>

NameSelectors ==
    {SchemaItemSelector, SchemaSelector, NameTSelector, NameUSelector,
     SchemaItemParameterSelector}
KindSelectors == {KindDatabaseSelector, KindSchemaSelector, KindTableSelector}

\* The chains of at most MaxSel item selectors, outermost first.
SelectorChains ==
    UNION {[1..k -> NameSelectors] : k \in 0..MaxSel}
    \cup UNION {[1..k -> KindSelectors] : k \in 1..MaxSel}

\* Argument lists.
Literal(s) == Argument("type", <<Quoted(s)>>)
NoArgList == <<>>
ArgList(arguments) == <<arguments>>
OracleTarget == <<"host:1521", Slash, "ORCL", Dot, "local">>
OracleTargetNoDomain == <<"host:1521", Slash, "ORCL">>
\* the SQL texts: the tables s.t, u and d.s.t; the table u.s.t
SqlText == <<"s", Dot, "t", Comma, "u", Comma, "d", Dot, "s", Dot, "t">>
SqlText3 == <<"u", Dot, "s", Dot, "t">>
\* [Query="..."], [Other="..."]
QueryRecord(key, sql) == Argument("none", << <<key>>, <<WS>>, Quoted(sql) >>)
\* Snowflake.Databases("h", "d"), inside Value.NativeQuery
PlatformCall(tag) ==
    Argument("type", << <<tag>>, <<"Databases">>, Quoted(<<"h">>), Quoted(<<"d">>) >>)

ArgumentListsOf(function_name) ==
    CASE function_name \in {<<"PostgreSQL.Database">>, <<"AmazonRedshift.Database">>,
                            <<"Databricks.Catalogs">>} ->
            {NoArgList, ArgList(<<Literal(<<"h">>)>>),
             ArgList(<<Literal(<<"h">>), Literal(<<"d">>)>>)}
      [] function_name = <<"Sql.Database">> ->
            {ArgList(<<>>), ArgList(<<Literal(<<"h">>)>>),
             ArgList(<<Literal(<<"h">>), Literal(<<"d">>)>>),
             ArgList(<<Literal(<<"h">>), Literal(<<"d">>), Literal(<<"x">>)>>),
             ArgList(<<Literal(<<"h">>), Literal(<<"d">>), QueryRecord("Query", SqlText)>>),
             ArgList(<<Literal(<<"h">>), Literal(<<"d">>), QueryRecord("Query", <<>>)>>),
             ArgList(<<Literal(<<"h">>), Literal(<<"d">>), QueryRecord("Other", SqlText)>>)}
      [] function_name = <<"Oracle.Database">> ->
            {ArgList(<<>>), ArgList(<<Literal(<<"h">>)>>),
             ArgList(<<Literal(OracleTarget)>>),
             ArgList(<<Literal(OracleTargetNoDomain), Literal(<<"x">>)>>)}
      [] function_name \in {<<"Snowflake.Databases">>, <<"GoogleBigQuery.Database">>} ->
            {ArgList(<<>>), ArgList(<<Literal(<<"h">>)>>),
             ArgList(<<Literal(<<"h">>), Literal(<<"d">>)>>)}
      [] function_name = <<"Value.NativeQuery">> ->
            {ArgList(<<PlatformCall("Snowflake"), Literal(SqlText)>>),
             ArgList(<<PlatformCall("AmazonRedshift"), Literal(SqlText3)>>),
             ArgList(<<PlatformCall("ab"), Literal(SqlText3)>>),
             ArgList(<<PlatformCall("PostgreSQL"), Literal(SqlText3)>>),
             ArgList(<<PlatformCall("Snowflake")>>),
             ArgList(<<PlatformCall("Snowflake"), Literal(SqlText3), Literal(<<"x">>)>>)}

\* The statements that call a data-access function.
DataAccessStatements ==
    UNION {{InvokeStatement(get_function_names[i], a) :
               a \in ArgumentListsOf(get_function_names[i])} :
           i \in 1..Len(get_function_names)}

\* The statements at which a branch of the walk ends without a detail; the
\* calls are of functions the registry does not have.
DeadEndStatements ==
    {NoExpressionStatement,
     ExpressionStatement(<<>>, <<>>),
     ExpressionStatement(<<SchemaItemSelector>>, <<>>),
     InvokeStatement(<<"Table.AddColumn">>, NoArgList),
     InvokeStatement(<<"Table.AddColumn">>, ArgList(<<>>)),
     InvokeStatement(<<"Table.AddColumn">>,
                     ArgList(<<Argument("none", << <<"x">> >>)>>)),
     InvokeStatement(<<"MySql.Database">>,
                     ArgList(<<Literal(<<"h">>), Literal(<<"d">>)>>)),
     InvokeStatement(<<"Table.AddColumn">>,
                     ArgList(<<Argument("type", << <<"Missing">> >>), Literal(<<"x">>)>>))}

\* The statements of a set of <<variable, statement>> pairs.
Statements(pairs) ==
    [v \in {p[1] : p \in pairs} |-> (CHOOSE p \in pairs : p[1] = v)[2]]

\* name = identifier{[...]}[Data]
SelectorStatement(tokens, identifier) ==
    ExpressionStatement(<<tokens>>, << << identifier >> >>)

\* v1 = v2{..}, ..., vk = v(k+1){..}, v(k+1) = the last statement (absent
\* when last is <<>>), in v1.
Linear(chain, last) ==
    [output_variable |-> <<Var(1)>>,
     statements |->
        Statements({<<Var(i), SelectorStatement(chain[i], Var(i + 1))>> :
                       i \in 1..Len(chain)}
                   \cup {<<Var(Len(chain) + 1), last[i]>> : i \in 1..Len(last)})]

LinearTrees ==
    {Linear(chain, <<last>>) : chain \in SelectorChains, last \in DataAccessStatements}
    \cup {Linear(chain, <<last>>) :
             chain \in {c \in SelectorChains : Len(c) <= 1}, last \in DeadEndStatements}
    \cup {Linear(chain, <<>>) : chain \in {c \in SelectorChains : Len(c) <= 1}}

\* The texts of the literals in the expressions below.
Texts == {<<"a">>, <<"b", WS, "c">>}

\* Source = P.Database("h","d"), t = Source{[Schema="s",Item="n"]}[Data] in t
TwoStepExpression(function_name, h, d, s, n) ==
    Linear(<< << <<"Schema">>, Quoted(s), <<"Item">>, Quoted(n) >> >>,
           <<InvokeStatement(function_name, ArgList(<<Literal(h), Literal(d)>>))>>)

TwoStepTrees ==
    {TwoStepExpression(function_name, h, d, s, n) :
        function_name \in {<<"PostgreSQL.Database">>, <<"Sql.Database">>},
        h \in Texts, d \in Texts, s \in Texts, n \in Texts}

\* The SQL text that reads the tables names, each a sequence of parts.
RECURSIVE JoinWith(_, _)
JoinWith(parts, separator) ==
    IF parts = <<>> THEN <<>>
    ELSE IF Len(parts) = 1 THEN parts[1]
    ELSE parts[1] \o <<separator>> \o JoinWith(Tail(parts), separator)

SqlReading(names) ==
    JoinWith([i \in 1..Len(names) |-> JoinWith(names[i], Dot)], Comma)

\* The table names an SQL text may read: bare, schema.table, db.schema.table.
TableNames == {<< <<"t">> >>, << <<"s">>, <<"t">> >>, << <<"u">>, <<"n">> >>,
               << <<"d">>, <<"s">>, <<"t">> >>}
TableNameLists == UNION {[1..k -> TableNames] : k \in 1..2}

\* Source = Sql.Database("h","d",[Query="..."]) below the selectors of chain
MSSqlQueryArguments(h, d, names) ==
    <<Literal(h), Literal(d), QueryRecord("Query", SqlReading(names))>>

MSSqlQueryTrees ==
    {Linear(chain, <<InvokeStatement(<<"Sql.Database">>,
                                     ArgList(MSSqlQueryArguments(h, d, names)))>>) :
        chain \in {<<>>, <<SchemaItemSelector>>},
        h \in Texts, d \in Texts, names \in TableNameLists}

\* Source = Value.NativeQuery(P.Databases("h","d"), "...") in Source
NativeQueryArguments(tag, names) ==
    <<PlatformCall(tag), Literal(SqlReading(names))>>

NativeQueryTags == {"Snowflake", "AmazonRedshift"}

NativeQueryTrees ==
    {Linear(<<>>, <<InvokeStatement(<<"Value.NativeQuery">>,
                                    ArgList(NativeQueryArguments(tag, names)))>>) :
        tag \in NativeQueryTags, names \in TableNameLists}

\* Source = Oracle.Database("host/db.domain"), x = Source{[Schema="s"]}[Data],
\* t = x{[Name="t"]}[Data] in t
OracleExpression(host, db, domain, s, t) ==
    Linear(<< << <<"Name">>, Quoted(t) >>, << <<"Schema">>, Quoted(s) >> >>,
           <<InvokeStatement(<<"Oracle.Database">>,
                 ArgList(<<Literal(<<host, Slash, db, Dot>> \o domain)>>))>>)

OracleHosts == {"host:1521", "localhost:1521"}
OracleDomains == {<<"local">>, <<"GSLAB", Dot, "COM">>}

OracleTrees ==
    {OracleExpression(host, "ORCL", domain, s, t) :
        host \in OracleHosts, domain \in OracleDomains, s \in Texts, t \in Texts}

\* {[Name="..."]}
NameSelector(name) == << <<"Name">>, Quoted(name) >>

\* Source = P("server"), db = Source{[Name="db"]}[Data],
\* schema = db{[Name="schema"]}[Data], t = schema{[Name="table"]}[Data] in t
ThreeStepExpression(function_name, arguments, db, schema, table) ==
    Linear(<<NameSelector(table), NameSelector(schema), NameSelector(db)>>,
           <<InvokeStatement(function_name,
                 ArgList([i \in 1..Len(arguments) |-> Literal(arguments[i])]))>>)

\* The arguments of the calls: none, the server, the server and one more.
ThreeStepArguments == {<<>>, << <<"a">> >>, << <<"b", WS, "c">>, <<"a">> >>}

ThreeStepTrees ==
    {ThreeStepExpression(function_name, arguments, db, schema, table) :
        function_name \in {<<"Snowflake.Databases">>, <<"GoogleBigQuery.Database">>},
        arguments \in ThreeStepArguments,
        db \in Texts, schema \in Texts, table \in Texts}

\* Source = AmazonRedshift.Database("server","db"),
\* s = Source{[Name="schema"]}[Data], t = s{[Name="table"]}[Data] in t
RedshiftExpression(arguments, schema, table) ==
    Linear(<<NameSelector(table), NameSelector(schema)>>,
           <<InvokeStatement(<<"AmazonRedshift.Database">>,
                 ArgList([i \in 1..Len(arguments) |-> Literal(arguments[i])]))>>)

RedshiftArguments ==
    {<<>>, << <<"a">> >>, << <<"a">>, <<"b", WS, "c">> >>,
     << <<"b", WS, "c">>, <<"a">>, <<"a">> >>}

RedshiftTrees ==
    {RedshiftExpression(arguments, schema, table) :
        arguments \in RedshiftArguments, schema \in Texts, table \in Texts}

\* names[1] = names[2]{..}, ..., names[k] = names[k+1]{..}, and names[k+1]
\* = the last statement (absent when last is <<>>).
ChainPairs(names, chain, last) ==
    {<<names[i], SelectorStatement(chain[i], names[i + 1])>> : i \in 1..Len(chain)}
    \cup {<<names[Len(chain) + 1], last[i]>> : i \in 1..Len(last)}

\* Table.Combine({a, b}, ...) and Table.AddColumn(a, ...)
CombineStatement(a, b) ==
    InvokeStatement(<<"Table.Combine">>,
                    ArgList(<<Argument("list", <<a, <<WS>>, b>>)>>))
AddColumnStatement(a) ==
    InvokeStatement(<<"Table.AddColumn">>,
                    ArgList(<<Argument("type", <<a>>), Literal(<<"x">>)>>))

\* The selectors in front of a fan-out and on its branches, and the
\* statements its branches end with.
FanChains == {<<>>, <<SchemaItemSelector>>, <<SchemaSelector>>}
FanLast ==
    {<<>>,
     <<InvokeStatement(<<"PostgreSQL.Database">>,
                       ArgList(<<Literal(<<"h">>), Literal(<<"d">>)>>))>>,
     <<InvokeStatement(<<"PostgreSQL.Database">>, ArgList(<<Literal(<<"h">>)>>))>>,
     <<InvokeStatement(<<"PostgreSQL.Database">>, NoArgList)>>,
     <<InvokeStatement(<<"Sql.Database">>,
                       ArgList(<<Literal(<<"u">>), Literal(<<"d">>),
                                 QueryRecord("Query", SqlText3)>>))>>,
     <<InvokeStatement(<<"MySql.Database">>,
                       ArgList(<<Literal(<<"h">>), Literal(<<"d">>)>>))>>}

\* v1 [= v2{..}, v2] = Table.Combine({v3, v5}), each of v3 and v5 a chain
\* of its own.
FanOut(pre, chainA, lastA, chainB, lastB) ==
    [output_variable |-> <<Var(1)>>,
     statements |->
        Statements(ChainPairs(<<Var(1), Var(2)>>, pre,
                              <<CombineStatement(Var(3), Var(5))>>)
                   \cup ChainPairs(<<Var(3), Var(4)>>, chainA, lastA)
                   \cup ChainPairs(<<Var(5), Var(6)>>, chainB, lastB))]

\* The same with one branch, through Table.AddColumn(v3, ...).
Through(pre, chainA, lastA) ==
    [output_variable |-> <<Var(1)>>,
     statements |->
        Statements(ChainPairs(<<Var(1), Var(2)>>, pre, <<AddColumnStatement(Var(3))>>)
                   \cup ChainPairs(<<Var(3), Var(4)>>, chainA, lastA))]

\* Two branches that select from the same source v7.
SharedSource(pre, selectorA, selectorB, last) ==
    [output_variable |-> <<Var(1)>>,
     statements |->
        Statements(ChainPairs(<<Var(1), Var(2)>>, pre,
                              <<CombineStatement(Var(3), Var(5))>>)
                   \cup ChainPairs(<<Var(3), Var(7)>>, <<selectorA>>, <<>>)
                   \cup ChainPairs(<<Var(5), Var(7)>>, <<selectorB>>, last))]

FanTrees ==
    {FanOut(pre, chainA, lastA, chainB, lastB) :
        pre \in FanChains, chainA \in FanChains, lastA \in FanLast,
        chainB \in FanChains, lastB \in FanLast}
    \cup {Through(pre, chainA, lastA) :
             pre \in FanChains, chainA \in FanChains, lastA \in FanLast}
    \cup {SharedSource(pre, selectorA, selectorB, last) :
             pre \in FanChains,
             selectorA \in {SchemaItemSelector, SchemaSelector},
             selectorB \in {SchemaItemSelector, SchemaSelector},
             last \in FanLast}

\* v1 = Table.Combine({v3, v5}), v3 and v5 each a native query.
NativeQueryStatement(tag, names) ==
    InvokeStatement(<<"Value.NativeQuery">>,
                    ArgList(NativeQueryArguments(tag, names)))

NativeQueryFanTrees ==
    {FanOut(<<>>, <<>>, <<NativeQueryStatement(tagA, names)>>,
            <<>>, <<NativeQueryStatement(tagB, names)>>) :
        tagA \in NativeQueryTags, tagB \in NativeQueryTags,
        names \in {<< << <<"d">>, <<"s">>, <<"t">> >> >>,
                   << << <<"t">> >>, << <<"d">>, <<"s">>, <<"t">> >> >>}}

\* Statement sets in which a variable refers back to itself.
CyclicTrees ==
    {[output_variable |-> <<Var(1)>>, statements |-> Statements(pairs)] :
        pairs \in
          {{<<Var(1), AddColumnStatement(Var(1))>>},
           {<<Var(1), SelectorStatement(SchemaItemSelector, Var(1))>>},
           {<<Var(1), SelectorStatement(SchemaSelector, Var(2))>>,
            <<Var(2), AddColumnStatement(Var(1))>>},
           {<<Var(1), CombineStatement(Var(3), Var(1))>>,
            <<Var(3), InvokeStatement(<<"PostgreSQL.Database">>,
                                      ArgList(<<Literal(<<"h">>), Literal(<<"d">>)>>))>>}}}

\* An expression without an in-expression.
NoOutputTrees ==
    {[output_variable |-> <<>>,
      statements |-> Statements({<<Var(1), last>>})] : last \in DataAccessStatements}

ParseTrees ==
    LinearTrees \cup TwoStepTrees \cup MSSqlQueryTrees \cup OracleTrees
    \cup FanTrees \cup CyclicTrees \cup NoOutputTrees
    \cup ThreeStepTrees \cup RedshiftTrees \cup NativeQueryTrees
    \cup NativeQueryFanTrees

\* What a resolver of another table reports to the reporter.
OtherWarning == "other-table: warning of the resolver of another table"

\* The warnings of the other resolver among those reported so far.
OtherWarnings == Len(SelectSeq(reporter, LAMBDA w : w = OtherWarning))

\* A step of the other resolver that also appends to this resolver's
\* data_platform_tables, as if the list were shared.
OtherResolverReports_shared ==
    /\ Len(results) >= 1
    /\ pc \in {"walk", "resolve"}
    /\ OtherWarnings < MaxOther
    /\ reporter' = Append(reporter, OtherWarning)
    /\ data_platform_tables' =
           Append(data_platform_tables,
                  DataPlatformTable(<<"other">>, <<"other">>, <<"other">>,
                                    "POSTGRES_SQL"))
    /\ UNCHANGED <<handler_vars, usage_vars, parse_tree, parameters, pc, calls,
                   heap, table_links, f_index, results>>

\* A step of the resolver of another table, run between two steps of this
\* resolver's second call: the two resolvers have the reporter in common,
\* and a step of the other one that reports a warning appends to it.  The
\* other resolver's tree, parameters, accessors and lists are its own.
OtherResolverReports ==
    /\ Len(results) >= 1
    /\ pc \in {"walk", "resolve"}
    /\ OtherWarnings < MaxOther
    /\ reporter' = Append(reporter, OtherWarning)
    /\ UNCHANGED <<handler_vars, usage_vars, parse_tree, parameters, pc, calls,
                   heap, table_links, f_index, data_platform_tables, results>>

\* ------------------------------------------------------------------------
\* StaleEntityRemovalHandler (state/stale_entity_removal_handler.py)
\*
\* A checkpoint is <<state>> and None is <<>>; a checkpoint state is the set
\* of the urns it tracks.  Every urn is tracked under one type.
\* ------------------------------------------------------------------------

\* get_supported_types() of the checkpoint state class.
SupportedTypes == <<"table", "view">>

\* The urns of the model, in the order a state iterates over them.
UrnOrder == <<"urn:table:a", "urn:table:b", "urn:view:c">>

Urns == {UrnOrder[i] : i \in 1..Len(UrnOrder)}

\* The type a source tracks an urn under.
TypeOf(urn) == IF urn = "urn:view:c" THEN "view" ELSE "table"

\* StatefulStaleMetadataRemovalConfig: the two fields it adds and the two
\* fields of StatefulIngestionConfig the handler reads.
StatefulStaleMetadataRemovalConfig(remove, ignore_old, ignore_new, threshold) ==
    [remove_stale_metadata |-> remove,
     ignore_old_state |-> ignore_old,
     ignore_new_state |-> ignore_new,
     fail_safe_threshold |-> threshold]

\* fail_safe_threshold: a percentage, ge=0.0 and le=100.0, 100.0 by default.
FailSafeThresholds == {0, 50, 100}

StatefulConfigs ==
    {StatefulStaleMetadataRemovalConfig(remove, ignore_old, ignore_new, threshold) :
        remove \in BOOLEAN, ignore_old \in BOOLEAN, ignore_new \in BOOLEAN,
        threshold \in FailSafeThresholds}

\* StaleEntityRemovalSourceReport: the failures reported and the urns
\* reported as soft deleted.
StaleEntityRemovalSourceReport ==
    [failures |-> <<>>, soft_deleted_stale_entities |-> <<>>]

\* The urns a state tracks under one type.
UrnsOfType(state, type) == {urn \in state : TypeOf(urn) = type}

\* get_entity_overlap_and_cardinalities
get_entity_overlap_and_cardinalities(new_entities, old_entities) ==
    <<Cardinality(new_entities \cap old_entities),
      Cardinality(old_entities),
      Cardinality(new_entities)>>

RECURSIVE CountAll(_, _)
\* The loop of compute_percent_entities_changed: the sum of one of the
\* counts over the (new, old) pairs.
CountAll(new_old_entity_list, which) ==
    IF new_old_entity_list = <<>> THEN 0
    ELSE get_entity_overlap_and_cardinalities(
             new_old_entity_list[1][1], new_old_entity_list[1][2])[which]
         + CountAll(Tail(new_old_entity_list), which)

\* compute_percent_entities_changed: (1 - overlap / old) * 100.0, or 0.0
\* when there is no old entity.  The percentage is kept as the fraction
\* numerator / denominator.
compute_percent_entities_changed(new_old_entity_list) ==
    LET overlap_count_all == CountAll(new_old_entity_list, 1)
        old_count_all == CountAll(new_old_entity_list, 2)
    IN  IF old_count_all # 0
        THEN [numerator |-> (old_count_all - overlap_count_all) * 100,
              denominator |-> old_count_all]
        ELSE [numerator |-> 0, denominator |-> 1]

\* percent > threshold
GreaterThan(percent, threshold) ==
    percent.numerator > threshold * percent.denominator

\* get_percent_entities_changed of a state: the (new, old) pairs of every
\* supported type, given to compute_percent_entities_changed.
get_percent_entities_changed(state, old_checkpoint_state) ==
    compute_percent_entities_changed(
        [i \in 1..Len(SupportedTypes) |->
            <<UrnsOfType(state, SupportedTypes[i]),
              UrnsOfType(old_checkpoint_state, SupportedTypes[i])>>])

\* get_urns_not_in of a state: the urns of the type the state tracks and
\* the other state does not.
get_urns_not_in(state, type, other_checkpoint_state) ==
    SelectSeq(UrnOrder,
        LAMBDA urn : /\ urn \in UrnsOfType(state, type)
                     /\ urn \notin other_checkpoint_state)

\* self.checkpointing_enabled, as __init__ sets it.
is_checkpointing_enabled ==
    /\ source_configured
    /\ stateful_ingestion_config # <<>>
    /\ stateful_ingestion_config[1].remove_stale_metadata

ignore_old_state ==
    /\ stateful_ingestion_config # <<>>
    /\ stateful_ingestion_config[1].ignore_old_state

ignore_new_state ==
    /\ stateful_ingestion_config # <<>>
    /\ stateful_ingestion_config[1].ignore_new_state

\* create_checkpoint(): a checkpoint with an empty state, or None.
create_checkpoint ==
    IF is_checkpointing_enabled /\ ~ignore_new_state THEN <<{}>> ELSE <<>>

\* add_urn_to_skip(urn)
add_urn_to_skip ==
    /\ generated = "pending"
    /\ \E urn \in Urns : urns_to_skip' = urns_to_skip \cup {urn}
    /\ UNCHANGED <<resolver_vars, usage_vars, source_configured,
                   stateful_ingestion_config, last_checkpoint, cur_checkpoint,
                   added_urns, report, workunits, generated>>

\* add_entity_to_state(type, urn), type being the type of the urn.
add_entity_to_state ==
    /\ generated = "pending"
    /\ \E urn \in Urns :
        /\ added_urns' = added_urns \cup {urn}
        /\ IF ~is_checkpointing_enabled \/ ignore_new_state
           THEN UNCHANGED cur_checkpoint
           ELSE cur_checkpoint' = <<cur_checkpoint[1] \cup {urn}>>
    /\ UNCHANGED <<resolver_vars, usage_vars, source_configured,
                   stateful_ingestion_config, last_checkpoint, urns_to_skip,
                   report, workunits, generated>>

\* The fail-safe test of gen_removed_entity_workunits.
FailSafeBlocks_unguarded(entity_difference_percent, fail_safe_threshold) ==
    FALSE

FailSafeBlocks(entity_difference_percent, fail_safe_threshold) ==
    /\ GreaterThan(entity_difference_percent, fail_safe_threshold)
    /\ fail_safe_threshold < 100

RECURSIVE StaleUrns(_, _, _)
\* The loops of gen_removed_entity_workunits over the supported types and
\* over the urns of the last state that the current state lacks: the urns
\* it yields a soft-delete work unit for.
StaleUrns_unskipped(types, last_checkpoint_state, cur_checkpoint_state) ==
    IF types = <<>> THEN <<>>
    ELSE get_urns_not_in(last_checkpoint_state, types[1], cur_checkpoint_state)
         \o StaleUrns(Tail(types), last_checkpoint_state, cur_checkpoint_state)

StaleUrns(types, last_checkpoint_state, cur_checkpoint_state) ==
    IF types = <<>> THEN <<>>
    ELSE SelectSeq(
             get_urns_not_in(last_checkpoint_state, types[1], cur_checkpoint_state),
             LAMBDA urn : urn \notin urns_to_skip)
         \o StaleUrns(Tail(types), last_checkpoint_state, cur_checkpoint_state)

\* _create_soft_delete_workunit(urn, type)
SoftDeleteWorkunit(urn) == [id |-> <<"soft-delete-", urn>>, removed |-> TRUE]

\* gen_removed_entity_workunits(), run to its end.
gen_removed_entity_workunits ==
    /\ generated = "pending"
    /\ IF ~is_checkpointing_enabled \/ ignore_old_state
       THEN generated' = "returned" /\ UNCHANGED <<report, workunits>>
       ELSE IF last_checkpoint = <<>>
       THEN generated' = "returned" /\ UNCHANGED <<report, workunits>>
       ELSE IF cur_checkpoint = <<>>
       THEN generated' = "AssertionError" /\ UNCHANGED <<report, workunits>>
       ELSE LET last_checkpoint_state == last_checkpoint[1]
                cur_checkpoint_state == cur_checkpoint[1]
                entity_difference_percent ==
                    get_percent_entities_changed(
                        cur_checkpoint_state, last_checkpoint_state)
                stale ==
                    StaleUrns(SupportedTypes, last_checkpoint_state,
                              cur_checkpoint_state)
            IN  IF FailSafeBlocks(entity_difference_percent,
                       stateful_ingestion_config[1].fail_safe_threshold)
                THEN /\ report' =
                          [report EXCEPT
                              !.failures = Append(@, "Stateful Ingestion")]
                     /\ generated' = "returned"
                     /\ UNCHANGED workunits
                ELSE /\ workunits' =
                          [i \in 1..Len(stale) |-> SoftDeleteWorkunit(stale[i])]
                     /\ report' =
                          [report EXCEPT
                              !.soft_deleted_stale_entities = @ \o stale]
                     /\ generated' = "returned"
    /\ UNCHANGED <<resolver_vars, usage_vars, source_configured,
                   stateful_ingestion_config, last_checkpoint, cur_checkpoint,
                   urns_to_skip, added_urns>>

\* ------------------------------------------------------------------------
\* UsageAggregator (usage/usage_common.py)
\*
\* A Counter is a function from the keys counted so far to their counts.
\* An optional query is <<query>> and None is <<>>.  A regular expression
\* of an AllowDenyPattern is the set of the user emails it matches.
\* ------------------------------------------------------------------------

Users == {"a@x.com", "b@y.com"}

Resources == {"r1", "r2"}

Queries == {<<>>, <<"">>, <<"select 1">>}

FieldLists == {<<>>, <<"c1">>, <<"c1", "c2">>}

StartTimes == 0..2

AllowDenyPattern(allow, deny) == [allow |-> allow, deny |-> deny]

\* AllowDenyPattern.allow_all()
allow_all == AllowDenyPattern(Users, {})

\* AllowDenyPattern.allowed(string)
allowed(pattern, string) == string \notin pattern.deny /\ string \in pattern.allow

UserEmailPatterns ==
    {allow_all, AllowDenyPattern(Users, {"b@y.com"}),
     AllowDenyPattern({"a@x.com"}, {})}

\* BaseUsageConfig: the bucket duration and the user email pattern.
UsageConfigs ==
    {[bucket_duration |-> 2, user_email_pattern |-> pattern] :
        pattern \in UserEmailPatterns}

\* get_time_bucket(start_time, bucket_duration)
get_time_bucket(start_time, bucket_duration) ==
    start_time - (start_time % bucket_duration)

EmptyCounter == [key \in {} |-> 0]

\* counter[key] += 1
Increment(counter, key) ==
    IF key \in DOMAIN counter
    THEN [counter EXCEPT ![key] = @ + 1]
    ELSE [k \in DOMAIN counter \cup {key} |->
             IF k = key THEN 1 ELSE counter[k]]

\* counter[key], which is 0 for a key never counted.
CountOf(counter, key) == IF key \in DOMAIN counter THEN counter[key] ELSE 0

RECURSIVE IncrementAll(_, _)
\* for column in fields: counter[column] += 1
IncrementAll(counter, fields) ==
    IF fields = <<>> THEN counter
    ELSE IncrementAll(Increment(counter, fields[1]), Tail(fields))

\* GenericAggregatedDataset(bucket_start_time, resource)
GenericAggregatedDataset(bucket_start_time, resource) ==
    [bucket_start_time |-> bucket_start_time,
     resource |-> resource,
     readCount |-> 0,
     queryCount |-> 0,
     queryFreq |-> EmptyCounter,
     userFreq |-> EmptyCounter,
     columnFreq |-> EmptyCounter]

\* GenericAggregatedDataset.add_read_entry
add_read_entry(self, user_email, query, fields, user_email_pattern) ==
    IF ~allowed(user_email_pattern, user_email) THEN self
    ELSE LET truthy == query # <<>> /\ query[1] # ""
         IN  [self EXCEPT
                 !.readCount = @ + 1,
                 !.userFreq = Increment(@, user_email),
                 !.queryCount = IF truthy THEN @ + 1 ELSE @,
                 !.queryFreq = IF truthy THEN Increment(@, query[1]) ELSE @,
                 !.columnFreq = IncrementAll(@, fields)]

\* self.aggregation[floored_ts].setdefault(resource, aggregate): the
\* aggregation is kept as one function of the (bucket, resource) pairs.
setdefault(dict, key, default) ==
    IF key \in DOMAIN dict THEN dict
    ELSE [k \in DOMAIN dict \cup {key} |-> IF k = key THEN default ELSE dict[k]]

RECURSIVE SumOver(_, _)
\* The sum of read(dict[key]) over the keys.
SumOver(dict, keys) ==
    IF keys = {} THEN 0
    ELSE LET key == CHOOSE k \in keys : TRUE
         IN  dict[key] + SumOver(dict, keys \ {key})

\* sum(counter.values())
Total(counter) == SumOver(counter, DOMAIN counter)

\* The events aggregated so far.
EventCount ==
    SumOver([key \in DOMAIN aggregation |-> aggregation[key].readCount],
            DOMAIN aggregation)

\* UsageAggregator.aggregate_event(resource, start_time, query, user, fields)
aggregate_event ==
    /\ EventCount < MaxEvents
    /\ \E resource \in Resources, start_time \in StartTimes, query \in Queries,
          user \in Users, fields \in FieldLists :
        LET floored_ts ==
                get_time_bucket(start_time, usage_config.bucket_duration)
            key == <<floored_ts, resource>>
            created ==
                setdefault(aggregation, key,
                           GenericAggregatedDataset(floored_ts, resource))
        IN  aggregation' =
                [created EXCEPT
                    ![key] = add_read_entry(@, user, query, fields, allow_all)]
    /\ UNCHANGED <<resolver_vars, handler_vars, usage_config>>

\* ------------------------------------------------------------------------
\* The specification.
\* ------------------------------------------------------------------------

\* No resolver has been constructed.
ResolverIdle ==
    /\ parse_tree = <<>>
    /\ parameters = <<>>
    /\ reporter = <<>>
    /\ pc = "idle"
    /\ calls = <<>>
    /\ heap = <<>>
    /\ table_links = <<>>
    /\ f_index = 1
    /\ data_platform_tables = <<>>
    /\ results = <<>>

\* No stale entity removal handler has been constructed.
HandlerIdle ==
    /\ source_configured = FALSE
    /\ stateful_ingestion_config = <<>>
    /\ last_checkpoint = <<>>
    /\ cur_checkpoint = <<>>
    /\ urns_to_skip = {}
    /\ added_urns = {}
    /\ report = StaleEntityRemovalSourceReport
    /\ workunits = <<>>
    /\ generated = "pending"

\* No usage aggregator has been constructed.
UsageIdle ==
    /\ usage_config = [bucket_duration |-> 2, user_email_pattern |-> allow_all]
    /\ aggregation = EmptyCounter

Init ==
    /\ parse_tree \in ParseTrees
    /\ parameters \in ParameterMaps
    /\ reporter = <<>>
    /\ pc = "idle"
    /\ calls = <<>>
    /\ heap = <<>>
    /\ table_links = <<>>
    /\ f_index = 1
    /\ data_platform_tables = <<>>
    /\ results = <<>>
    /\ HandlerIdle
    /\ UsageIdle

Next ==
    \/ Resolve
    \/ InternalNoStatement
    \/ InternalNoExpression
    \/ InternalInvokeNone
    \/ InternalDataAccess
    \/ InternalArguments
    \/ InternalNoItemSelector
    \/ InternalItemSelector
    \/ ReturnTableLinks
    \/ ResolveDetail
    \/ ResolveRaise
    \/ ResolveReturn

Spec == Init /\ [][Next]_vars

\* The resolver, its second call interleaved with the steps of the resolver
\* of another table.
InterleavedNext ==
    \/ Next
    \/ OtherResolverReports

InterleavedSpec == Init /\ [][InterleavedNext]_vars

\* The stale entity removal handler of one run of a source: __init__, then
\* any calls of add_entity_to_state and add_urn_to_skip, then
\* gen_removed_entity_workunits.
HandlerInit ==
    /\ source_configured \in BOOLEAN
    /\ stateful_ingestion_config \in {<<>>} \cup {<<c>> : c \in StatefulConfigs}
    /\ last_checkpoint \in {<<>>} \cup {<<state>> : state \in SUBSET Urns}
    /\ cur_checkpoint = create_checkpoint
    /\ urns_to_skip = {}
    /\ added_urns = {}
    /\ report = StaleEntityRemovalSourceReport
    /\ workunits = <<>>
    /\ generated = "pending"
    /\ ResolverIdle
    /\ UsageIdle

HandlerNext ==
    \/ add_entity_to_state
    \/ add_urn_to_skip
    \/ gen_removed_entity_workunits

HandlerSpec == HandlerInit /\ [][HandlerNext]_vars

\* A usage aggregator and the events given to it.
UsageInit ==
    /\ usage_config \in UsageConfigs
    /\ aggregation = EmptyCounter
    /\ ResolverIdle
    /\ HandlerIdle

UsageNext == aggregate_event

UsageSpec == UsageInit /\ [][UsageNext]_vars


\* ------------------------------------------------------------------------
\* The properties.
\* ------------------------------------------------------------------------

\* The last finished call of resolve_to_data_platform_table_list.
Finished == pc \in {"returned", "raised"} /\ results # <<>>
LastResult == results[Len(results)]

\* C1: for every two-step expression Source = P.Database("h","d"),
\* t = Source{[Schema="s",Item="n"]}[Data] in t, with P.Database one of
\* PostgreSQL.Database and Sql.Database, every call of
\* resolve_to_data_platform_table_list returns exactly one table, with
\* name n, full_name d.s.n and datasource_server h.
C1_TwoStepTable ==
    results # <<>> =>
    \A function_name \in {<<"PostgreSQL.Database">>, <<"Sql.Database">>},
       h \in Texts, d \in Texts, s \in Texts, n \in Texts :
        parse_tree = TwoStepExpression(function_name, h, d, s, n) =>
            \A i \in 1..Len(results) :
                /\ results[i].exc = ""
                /\ Len(results[i].tables) = 1
                /\ results[i].tables[1].name = n
                /\ results[i].tables[1].full_name = d \o <<Dot>> \o s \o <<Dot>> \o n
                /\ results[i].tables[1].datasource_server = h

\* A two-step expression with four different texts has been resolved.
C1_Witness ==
    /\ Finished
    /\ parse_tree = TwoStepExpression(<<"Sql.Database">>, <<"a">>, <<"b", WS, "c">>,
                                      <<"b", WS, "c">>, <<"a">>)
    /\ Len(LastResult.tables) = 1

\* C2: for Sql.Database("h","d","Query",sql) the MS-SQL strategy gives one
\* table per name the native SQL extractor returns for sql, in order: the
\* name s.t gives full_name d.s.t, name t and server h, and the bare name t
\* gives full_name d.dbo.t.
C2_MSSqlQueryTables ==
    (Finished /\ Len(table_links) = 1) =>
    \A h \in Texts, d \in Texts, names \in TableNameLists :
        (/\ table_links[1].data_access_function_name = <<"Sql.Database">>
         /\ table_links[1].arg_list = MSSqlQueryArguments(h, d, names)) =>
            /\ LastResult.exc = ""
            /\ Len(LastResult.tables) = Len(names)
            /\ \A i \in 1..Len(names) :
                /\ Len(names[i]) = 2 =>
                    /\ LastResult.tables[i].name = names[i][2]
                    /\ LastResult.tables[i].full_name =
                           d \o <<Dot>> \o names[i][1] \o <<Dot>> \o names[i][2]
                    /\ LastResult.tables[i].datasource_server = h
                /\ Len(names[i]) = 1 =>
                    /\ LastResult.tables[i].name = names[i][1]
                    /\ LastResult.tables[i].full_name =
                           d \o <<Dot, "dbo", Dot>> \o names[i][1]
                    /\ LastResult.tables[i].datasource_server = h

\* The MS-SQL strategy has handled a query that reads a bare name and a
\* schema-qualified one.
C2_Witness ==
    /\ Finished
    /\ Len(table_links) = 1
    /\ table_links[1].data_access_function_name = <<"Sql.Database">>
    /\ table_links[1].arg_list =
           MSSqlQueryArguments(<<"a">>, <<"b", WS, "c">>,
                               << << <<"t">> >>, << <<"s">>, <<"t">> >> >>)
    /\ Len(LastResult.tables) = 2

\* C3: for Oracle.Database("host:1521/ORCL.local") followed by the item
\* selectors {[Schema="s"]} and then {[Name="t"]} on the way to the output
\* variable, the call returns one table with datasource_server host:1521
\* and full_name ORCL.s.t; the schema is the Schema item of the head frame
\* of the detail's chain and the table the Name item of the frame its next
\* refers to.
C3_OracleTable ==
    Finished =>
    \A host \in OracleHosts, domain \in OracleDomains, s \in Texts, t \in Texts :
        parse_tree = OracleExpression(host, "ORCL", domain, s, t) =>
            /\ LastResult.exc = ""
            /\ Len(LastResult.tables) = 1
            /\ LastResult.tables[1].datasource_server = <<host>>
            /\ LastResult.tables[1].full_name = <<"ORCL", Dot>> \o s \o <<Dot>> \o t
            /\ LastResult.tables[1].name = t
            /\ Len(table_links) = 1
            /\ LET head == table_links[1].identifier_accessor
               IN  /\ head # 0
                   /\ heap[head].items[<<"Schema">>] = s
                   /\ heap[head].next # 0
                   /\ heap[heap[head].next].items[<<"Name">>] = t

\* The Oracle expression of the claim has been resolved.
C3_Witness ==
    /\ Finished
    /\ parse_tree = OracleExpression("host:1521", "ORCL", <<"local">>,
                                     <<"a">>, <<"b", WS, "c">>)
    /\ Len(LastResult.tables) = 1

\* The frames of the chain of the i-th detail of table_links.
FramesOf(i) ==
    LET chain == Chain(heap, table_links[i].identifier_accessor)
    IN  {chain[k] : k \in 1..Len(chain)}

\* The item-selector statements the walk passes from identifier on before
\* it meets a statement of another kind, counted over at most fuel steps.
RECURSIVE LeadingSelectors(_, _)
LeadingSelectors(identifier, fuel) ==
    IF fuel = 0 \/ ~HasStatement(identifier) THEN 0
    ELSE LET statement == get_variable_statement(identifier)
         IN  IF statement.kind # "expression"
                \/ get_item_selector_tokens(statement, parameters).none
             THEN 0
             ELSE 1 + LeadingSelectors(
                          get_item_selector_tokens(statement, parameters).identifier,
                          fuel - 1)

References(identifier) ==
    IF ~HasStatement(identifier) THEN {}
    ELSE LET statement == get_variable_statement(identifier)
         IN  IF statement.kind = "invoke"
             THEN LET tokens == process_invoke_expression(statement).tokens
                  IN  {tokens[i] : i \in 1..Len(tokens)}
             ELSE IF statement.kind = "expression"
                     /\ ~get_item_selector_tokens(statement, parameters).none
             THEN {get_item_selector_tokens(statement, parameters).identifier}
             ELSE {}

RECURSIVE ReachedFrom(_)
ReachedFrom(identifiers) ==
    LET more == identifiers \cup UNION {References(x) : x \in identifiers}
    IN  IF more = identifiers THEN identifiers ELSE ReachedFrom(more)

Reached ==
    IF parse_tree.output_variable = <<>> THEN {}
    ELSE ReachedFrom({parse_tree.output_variable[1]})

\* The statements reached that invoke a function.
ReachedInvokes ==
    {x \in Reached : HasStatement(x) /\ get_variable_statement(x).kind = "invoke"}

\* The function invoked is not one of the registry.
UnknownInvoke(identifier) ==
    \A i \in 1..Len(get_function_names) :
        get_function_names[i] # get_variable_statement(identifier).function_name

\* The warnings reported during the last finished call.
LastWarnings ==
    LastResult.warnings - (IF Len(results) = 1 THEN 0
                           ELSE results[Len(results) - 1].warnings)

\* C5, as stated: when the walk reaches a statement that invokes a function
\* the registry does not have, the call returns no table, reports exactly
\* one warning and raises nothing.
C5_UnknownFunctionRejected ==
    (Finished /\ \E x \in ReachedInvokes : UnknownInvoke(x)) =>
        /\ LastResult.exc = ""
        /\ LastResult.tables = <<>>
        /\ LastWarnings = 1

\* The invocation has no argument list, or a first argument that is neither
\* a list nor a type expression, or a first argument of one token that
\* names no statement.
DeadEndInvoke(identifier) ==
    LET statement == get_variable_statement(identifier)
        result == process_invoke_expression(statement)
    IN  \/ statement.arg_list = <<>>
        \/ /\ Len(statement.arg_list[1]) > 0
           /\ statement.arg_list[1][1].expression \notin {"list", "type"}
        \/ /\ result.kind = "tokens"
           /\ Len(result.tokens) = 1
           /\ ~HasStatement(result.tokens[1])

\* C5, amended: a function the registry does not have is handled as an
\* intermediate call, the walk going on at the tokens of its first
\* argument.  When it is the only invocation reached and it has no argument
\* list, or an unsupported first argument, or a first argument of one token
\* that names no statement (the literal of MySql.Database("h","d")), the
\* call returns no table, reports exactly one warning and raises nothing.
C5_UnknownFunctionDeadEnd ==
    (Finished /\ \E x \in ReachedInvokes :
                    ReachedInvokes = {x} /\ UnknownInvoke(x) /\ DeadEndInvoke(x)) =>
        /\ LastResult.exc = ""
        /\ LastResult.tables = <<>>
        /\ LastWarnings = 1

\* A call on MySql.Database("h","d") below an item selector has finished.
C5_Witness ==
    /\ Finished
    /\ \E x \in ReachedInvokes :
        /\ ReachedInvokes = {x}
        /\ get_variable_statement(x).function_name = <<"MySql.Database">>
        /\ x # parse_tree.output_variable[1]
    /\ LastWarnings = 1

\* What the strategy of the i-th detail of table_links does with it.
Converted(i) ==
    create_dataplatform_tables(
        get_resolver(table_links[i].data_access_function_name), heap, table_links[i])

\* The Kind items of the frames of the i-th detail, when each frame has one.
KindsOf(i) ==
    {heap[f].items[<<"Kind">>] :
        f \in {g \in FramesOf(i) : <<"Kind">> \in DOMAIN heap[g].items}}

\* C6: a Databricks.Catalogs detail whose chain has the kinds Database and
\* Table and no frame of kind Schema makes the call return an empty list
\* with one warning reported and nothing raised.
C6_DatabricksWithoutSchema ==
    (/\ Finished
     /\ Len(table_links) = 1
     /\ table_links[1].data_access_function_name = <<"Databricks.Catalogs">>
     /\ \A f \in FramesOf(1) : {<<"Kind">>, <<"Name">>} \subseteq DOMAIN heap[f].items
     /\ KindsOf(1) = {<<"Database">>, <<"Table">>}) =>
        /\ LastResult.exc = ""
        /\ LastResult.tables = <<>>
        /\ LastWarnings = 1

\* C7: when the walk finds several data-access invocations and the
\* strategy of one of them cannot convert it, the call still returns
\* normally, with the tables of every other invocation in order, and with a
\* warning for each entry it skipped.
C7_FailureIsolation ==
    (/\ Finished
     /\ Len(table_links) >= 2
     /\ \E i \in 1..Len(table_links) : Converted(i).exc # "") =>
        /\ LastResult.exc = ""
        /\ LastResult.tables =
               Concat([i \in 1..Len(table_links) |->
                          IF Converted(i).exc = "" THEN Converted(i).tables ELSE <<>>])
        /\ LastWarnings >=
               Cardinality({i \in 1..Len(table_links) : Converted(i).exc # ""})

\* The frames the strategy of a detail reads.
RequiredFrames(d) ==
    LET member == get_resolver(d.data_access_function_name)
        arguments == remove_whitespaces_from_list(ArgTokens(d.arg_list))
    IN  CASE member = "POSTGRES_SQL" -> 1
          [] member = "MS_SQL" -> IF Len(arguments) = 2 THEN 1 ELSE 0
          [] member \in {"ORACLE", "AMAZON_REDSHIFT"} -> 2
          [] member \in {"SNOWFLAKE", "GOOGLE_BIG_QUERY"} -> 3
          [] member = "DATABRICK_QUERY" -> 1
          [] OTHER -> 0

\* C8: a detail whose chain is shorter than its strategy needs (None when
\* the output variable is bound to the data-access call itself) makes
\* create_dataplatform_tables return an empty list: it raises nothing and
\* returns no record.
C8_ShortChainGivesEmptyList ==
    \A i \in 1..Len(table_links) :
        Len(Chain(heap, table_links[i].identifier_accessor))
            < RequiredFrames(table_links[i]) =>
                Converted(i) = Return(<<>>)

\* No identifier reached from the output variable refers back to itself.
Acyclic == \A x \in Reached : x \notin ReachedFrom(References(x))

\* The identifiers internal() calls itself with at a statement, in order.
Callees(identifier) ==
    IF ~HasStatement(identifier) THEN <<>>
    ELSE LET statement == get_variable_statement(identifier)
         IN  IF statement.kind = "invoke"
             THEN process_invoke_expression(statement).tokens
             ELSE IF statement.kind = "expression"
                     /\ ~get_item_selector_tokens(statement, parameters).none
             THEN <<get_item_selector_tokens(statement, parameters).identifier>>
             ELSE <<>>

\* The number of calls of internal() a call at the identifier stands for:
\* itself and the calls below it.
RECURSIVE CallsBelow(_, _)
CallsBelow(identifier, fuel) ==
    IF fuel = 0 THEN 1
    ELSE LET callees == Callees(identifier)
             below == [i \in 1..Len(callees) |-> CallsBelow(callees[i], fuel - 1)]
             sum[i \in 0..Len(callees)] == IF i = 0 THEN 0 ELSE sum[i - 1] + below[i]
         IN  1 + sum[Len(callees)]

\* The steps create_data_access_functional_detail has left: the calls of
\* internal() still to make and the return.
Remaining(position, pending) ==
    LET fuel == Cardinality(DOMAIN parse_tree.statements) + 1
        left[i \in 0..Len(pending)] ==
            IF i = 0 THEN 0
            ELSE left[i - 1] + CallsBelow(pending[i].current_identifier, fuel)
    IN  (IF position = "walk" THEN 1 ELSE 0) + left[Len(pending)]

\* C9: for a statement set whose reference graph is acyclic,
\* create_data_access_functional_detail, once started at the output
\* variable, returns: the recursion is never deeper than the number of
\* statements plus one, so the call that runs next can always take its
\* step, and every step leaves fewer steps to take.
C9_WalkTerminates ==
    /\ [](pc = "walk" /\ Acyclic /\ calls # <<>> =>
            /\ Head(calls).depth <= Cardinality(DOMAIN parse_tree.statements) + 1
            /\ Running)
    /\ [][pc = "walk" /\ Acyclic =>
            Remaining(pc', calls') < Remaining(pc, calls)]_vars

\* A walk over an acyclic statement set that fans out has returned two
\* details.
C9_Witness ==
    /\ pc = "resolve"
    /\ Acyclic
    /\ Len(table_links) = 2
    /\ heap # <<>>

\* C10: every call of resolve_to_data_platform_table_list on the same parse
\* tree and parameter map ends the same way and returns the same sequence
\* of tables.
C10_Idempotent ==
    \A i \in 1..Len(results), j \in 1..Len(results) :
        /\ results[i].exc = results[j].exc
        /\ results[i].tables = results[j].tables

\* Two calls have each returned two tables.
C10_Witness ==
    /\ Len(results) >= 2
    /\ Len(results[1].tables) >= 2
    /\ Len(results[2].tables) >= 2

\* The statement calls a data-access function with an argument list.
IsDataAccess(identifier) ==
    /\ HasStatement(identifier)
    /\ get_variable_statement(identifier).kind = "invoke"
    /\ process_invoke_expression(get_variable_statement(identifier)).kind = "detail"

\* The data-access statements below an identifier, depth first and left to
\* right along the calls of internal().
RECURSIVE DiscoveryOrder(_, _)
DiscoveryOrder(identifier, fuel) ==
    IF fuel = 0 THEN <<>>
    ELSE IF IsDataAccess(identifier) THEN <<identifier>>
    ELSE LET callees == Callees(identifier)
         IN  Concat([i \in 1..Len(callees) |-> DiscoveryOrder(callees[i], fuel - 1)])

\* The walk from the output variable has returned table_links.
Walked ==
    /\ pc \in {"resolve", "returned", "raised"}
    /\ parse_tree.output_variable # <<>>

\* C11: table_links holds one detail per data-access call, in the
\* depth-first, left-to-right order in which the walk reaches the calls,
\* and a call that returns gives the tables of the details in that order,
\* equal tables of different details all kept.
C11_DiscoveryOrder ==
    /\ Walked =>
        LET order == DiscoveryOrder(parse_tree.output_variable[1],
                                    Cardinality(DOMAIN parse_tree.statements) + 1)
        IN  /\ Len(table_links) = Len(order)
            /\ \A i \in 1..Len(order) :
                /\ table_links[i].data_access_function_name
                       = get_variable_statement(order[i]).function_name
                /\ <<table_links[i].arg_list>>
                       = get_variable_statement(order[i]).arg_list
    /\ (Walked /\ Finished /\ LastResult.exc = "") =>
        LastResult.tables =
            Concat([i \in 1..Len(table_links) |-> Converted(i).tables])

\* A call has returned the same table twice, once for each of two
\* data-access calls.
C11_Witness ==
    /\ Walked
    /\ Finished
    /\ LastResult.exc = ""
    /\ Len(table_links) = 2
    /\ Len(Converted(1).tables) = 1
    /\ Converted(1).tables = Converted(2).tables
    /\ LastResult.tables = Converted(1).tables \o Converted(2).tables

\* The identifiers internal() reaches from an identifier through calls of
\* other functions only, with the accessor it was given unchanged.
RECURSIVE SameAccessorReach(_)
SameAccessorReach(identifiers) ==
    LET through == {x \in identifiers :
                       /\ HasStatement(x)
                       /\ get_variable_statement(x).kind = "invoke"}
        more == identifiers \cup UNION {References(x) : x \in through}
    IN  IF more = identifiers THEN identifiers ELSE SameAccessorReach(more)

\* The frame is the one internal() builds at the item selector of the
\* statement of the identifier.
BuiltAt(frame, identifier) ==
    /\ HasStatement(identifier)
    /\ get_variable_statement(identifier).kind = "expression"
    /\ LET selector ==
               get_item_selector_tokens(get_variable_statement(identifier), parameters)
       IN  /\ ~selector.none
           /\ selector.identifier = heap[frame].identifier
           /\ selector.key_vs_value = heap[frame].items

\* C12, as stated: the head of a detail's chain is the frame of the item
\* selector closest to the output variable, and next points to the frame
\* closer to the data-access call.
C12_HeadOutermost ==
    \A i \in 1..Len(table_links) :
        table_links[i].identifier_accessor # 0 =>
            /\ \E y \in SameAccessorReach({parse_tree.output_variable[1]}) :
                   BuiltAt(table_links[i].identifier_accessor, y)
            /\ \A f \in FramesOf(i) :
                   heap[f].next # 0 =>
                       \E y \in SameAccessorReach({heap[f].identifier}) :
                           BuiltAt(heap[f].next, y)

\* C12, amended: the head of a detail's chain is the frame of the item
\* selector closest to the data-access call, next points to the frame
\* closer to the output variable, and the frame without a next is the one
\* of the item selector closest to the output variable.
C12_HeadInnermost ==
    \A i \in 1..Len(table_links) :
        table_links[i].identifier_accessor # 0 =>
            /\ \E y \in SameAccessorReach({heap[table_links[i].identifier_accessor].identifier}) :
                   /\ IsDataAccess(y)
                   /\ get_variable_statement(y).function_name
                          = table_links[i].data_access_function_name
                   /\ get_variable_statement(y).arg_list = <<table_links[i].arg_list>>
            /\ \A f \in FramesOf(i) :
                   IF heap[f].next # 0
                   THEN \E y \in SameAccessorReach({heap[heap[f].next].identifier}) :
                            BuiltAt(f, y)
                   ELSE \E y \in SameAccessorReach({parse_tree.output_variable[1]}) :
                            BuiltAt(f, y)

\* The walk has returned a detail with a chain of three frames.
C12_Witness ==
    /\ Walked
    /\ \E i \in 1..Len(table_links) : Cardinality(FramesOf(i)) = 3

\* The arguments MSSqlDataPlatformTableCreator sees in a detail.
MSSqlArguments(d) ==
    strip_char_from_list(remove_whitespaces_from_list(ArgTokens(d.arg_list)))

\* Neither two arguments nor at least four with the third one Query.
MSSqlUnsupportedShape(d) ==
    /\ d.data_access_function_name = <<"Sql.Database">>
    /\ Len(MSSqlArguments(d)) # 2
    /\ ~(Len(MSSqlArguments(d)) >= 4 /\ MSSqlArguments(d)[3] = <<"Query">>)

\* C13: a call whose only detail is a Sql.Database call of an unsupported
\* argument shape returns an empty list, reports the shape to the reporter
\* and raises nothing.
C13_MSSqlUnsupportedShapeReported ==
    (Walked /\ Finished /\ Len(table_links) = 1
        /\ MSSqlUnsupportedShape(table_links[1])) =>
            /\ LastResult.exc = ""
            /\ LastResult.tables = <<>>
            /\ LastWarnings >= 1

\* The platform tag of a Value.NativeQuery detail with two arguments: the
\* first token of its first argument.
NativeQueryTag(d) ==
    remove_whitespaces_from_list(d.arg_list[1].tokens)[1]

HasNativeQueryTag(d) ==
    /\ d.data_access_function_name = <<"Value.NativeQuery">>
    /\ Len(d.arg_list) = 2
    /\ remove_whitespaces_from_list(d.arg_list[1].tokens) # <<>>

\* C14: the Native Query strategy returns an empty list and raises nothing
\* for a platform tag outside SUPPORTED_NATIVE_QUERY_DATA_PLATFORM, and
\* raises nothing for a tag inside it.
C14_NativeQueryPlatformValidated ==
    \A i \in 1..Len(table_links) :
        HasNativeQueryTag(table_links[i]) =>
            IF NativeQueryTag(table_links[i])
                   \in DOMAIN SUPPORTED_NATIVE_QUERY_DATA_PLATFORM
            THEN Converted(i).exc = ""
            ELSE Converted(i) = Return(<<>>)

\* The function name is one of SupportedResolver.get_function_names().
InFunctionNames(function_name) ==
    \E k \in 1..Len(get_function_names) : get_function_names[k] = function_name

\* C15: every detail of table_links names a function for which
\* get_resolver returns a strategy, get_resolver returns one exactly for
\* the names of get_function_names(), and the warning of the branch
\* 'Resolver not found' is never reported.
C15_ResolverAlwaysFound ==
    /\ \A i \in 1..Len(table_links) :
           get_resolver(table_links[i].data_access_function_name) # ""
    /\ \A x \in DOMAIN parse_tree.statements :
           get_variable_statement(x).kind = "invoke" =>
               (get_resolver(get_variable_statement(x).function_name) # ""
                    <=> InFunctionNames(get_variable_statement(x).function_name))
    /\ \A k \in 1..Len(reporter) :
           reporter[k] #
               "data-access-function: Resolver not found for data-access-function"

\* A call has finished whose walk went through a function the registry
\* does not have and reached a data-access call below it.
C15_Witness ==
    /\ Walked
    /\ Finished
    /\ table_links # <<>>
    /\ \E x \in ReachedInvokes : UnknownInvoke(x)

\* For each data-access statement below an identifier, in discovery order,
\* the item-selector statements on the way to it; path holds those passed
\* so far.
RECURSIVE DiscoveryPaths(_, _, _)
DiscoveryPaths(identifier, path, fuel) ==
    IF fuel = 0 THEN <<>>
    ELSE IF IsDataAccess(identifier) THEN <<path>>
    ELSE LET callees == Callees(identifier)
             below == IF /\ HasStatement(identifier)
                         /\ get_variable_statement(identifier).kind = "expression"
                      THEN Append(path, identifier)
                      ELSE path
         IN  Concat([i \in 1..Len(callees) |->
                        DiscoveryPaths(callees[i], below, fuel - 1)])

\* C16, as stated: the chain of a detail has one frame for each
\* item-selector statement on the way from the output variable to the
\* detail's data-access call and no other frame, and read from its head
\* along next it lists them in the order of that way.
C16_ChainInPathOrder ==
    Walked =>
        LET paths == DiscoveryPaths(parse_tree.output_variable[1], <<>>,
                                    Cardinality(DOMAIN parse_tree.statements) + 1)
        IN  /\ Len(paths) = Len(table_links)
            /\ \A i \in 1..Len(paths) :
                LET chain == Chain(heap, table_links[i].identifier_accessor)
                IN  /\ Len(chain) = Len(paths[i])
                    /\ \A k \in 1..Len(chain) : BuiltAt(chain[k], paths[i][k])

\* C16, amended: the chain of a detail has one frame for each item-selector
\* statement on the way from the output variable to the detail's
\* data-access call and no other frame; read from its head along next it
\* lists them from the data-access call back to the output variable.
C16_ChainIsSelectorPath ==
    Walked =>
        LET paths == DiscoveryPaths(parse_tree.output_variable[1], <<>>,
                                    Cardinality(DOMAIN parse_tree.statements) + 1)
        IN  /\ Len(paths) = Len(table_links)
            /\ \A i \in 1..Len(paths) :
                LET chain == Chain(heap, table_links[i].identifier_accessor)
                IN  /\ Len(chain) = Len(paths[i])
                    /\ \A k \in 1..Len(chain) :
                           BuiltAt(chain[Len(chain) + 1 - k], paths[i][k])

\* The walk has been through an item selector, then a fan-out, then a
\* different item selector on each branch, and has returned two details.
C16_Witness ==
    /\ Walked
    /\ Len(table_links) = 2
    /\ Cardinality(FramesOf(1)) = 2
    /\ Cardinality(FramesOf(2)) = 2
    /\ Cardinality(FramesOf(1) \cap FramesOf(2)) = 1
    /\ \E f \in FramesOf(1) \ FramesOf(2), g \in FramesOf(2) \ FramesOf(1) :
           heap[f].items # heap[g].items

\* The warnings reported by the walk that has just returned.
WalkWarnings ==
    SubSeq(reporter,
           (IF results = <<>> THEN 0 ELSE results[Len(results)].warnings) + 1,
           Len(reporter))

\* The identifiers without a statement that internal() is called with below
\* an identifier, one entry for each call.
RECURSIVE MissingVisits(_, _)
MissingVisits(identifier, fuel) ==
    IF fuel = 0 THEN <<>>
    ELSE IF ~HasStatement(identifier) THEN <<identifier>>
    ELSE LET callees == Callees(identifier)
         IN  Concat([i \in 1..Len(callees) |-> MissingVisits(callees[i], fuel - 1)])

StatementNotFound(warning) ==
    warning = "variable-statement: output variable statement not found in table expression"

\* C17: the walk reports one warning for each identifier without a
\* statement it is called with, and still appends the detail of every
\* data-access call below the other tokens of a fan-out.
C17_MissingStatementEndsOneBranch ==
    (pc = "resolve" /\ parse_tree.output_variable # <<>>) =>
        LET fuel == Cardinality(DOMAIN parse_tree.statements) + 1
            start == parse_tree.output_variable[1]
        IN  /\ Len(SelectSeq(WalkWarnings, StatementNotFound))
                   = Len(MissingVisits(start, fuel))
            /\ Len(table_links) = Len(DiscoveryOrder(start, fuel))

\* The walk has returned from a fan-out whose first token has no statement
\* and whose second token is a data-access call: one warning, one detail.
C17_Witness ==
    /\ pc = "resolve"
    /\ parse_tree.output_variable # <<>>
    /\ \E x \in Reached :
           /\ Len(Callees(x)) = 2
           /\ ~HasStatement(Callees(x)[1])
           /\ IsDataAccess(Callees(x)[2])
    /\ Len(SelectSeq(WalkWarnings, StatementNotFound)) = 1
    /\ Len(table_links) = 1

\* The statement of the output variable has an expression that is neither
\* a function invocation nor an item selector with its identifier.
OtherShapeOutput ==
    /\ parse_tree.output_variable # <<>>
    /\ HasStatement(parse_tree.output_variable[1])
    /\ get_variable_statement(parse_tree.output_variable[1]).kind = "expression"
    /\ get_item_selector_tokens(get_variable_statement(parse_tree.output_variable[1]),
                                parameters).none

\* C18: when the expression of the output variable's statement is neither
\* a function invocation nor an item selector, the walk reports a warning
\* and returns no detail.
C18_OtherShapeWarned ==
    (pc = "resolve" /\ OtherShapeOutput) =>
        /\ table_links = <<>>
        /\ WalkWarnings # <<>>

\* C19: for Source = P(arguments) below the item selectors Name = db,
\* Name = schema and Name = table, with P one of Snowflake.Databases and
\* GoogleBigQuery.Database, every call returns exactly one table, with name
\* table and full_name db.schema.table; its datasource_server is the first
\* argument for Snowflake.Databases and db for GoogleBigQuery.Database,
\* whatever the arguments.
C19_ThreeStepTable ==
    results # <<>> =>
    \A function_name \in {<<"Snowflake.Databases">>, <<"GoogleBigQuery.Database">>},
       arguments \in ThreeStepArguments,
       db \in Texts, schema \in Texts, table \in Texts :
        (/\ parse_tree = ThreeStepExpression(function_name, arguments, db, schema, table)
         /\ (function_name = <<"Snowflake.Databases">> => arguments # <<>>)) =>
            \A i \in 1..Len(results) :
                /\ results[i].exc = ""
                /\ Len(results[i].tables) = 1
                /\ results[i].tables[1].name = table
                /\ results[i].tables[1].full_name
                       = db \o <<Dot>> \o schema \o <<Dot>> \o table
                /\ results[i].tables[1].datasource_server =
                       IF function_name = <<"Snowflake.Databases">>
                       THEN arguments[1] ELSE db
                /\ Finished =>
                   LET acc == table_links[1].identifier_accessor
                   IN  /\ Len(Chain(heap, acc)) = 3
                       /\ heap[acc].items[<<"Name">>] = db
                       /\ heap[heap[acc].next].items[<<"Name">>] = schema
                       /\ heap[heap[heap[acc].next].next].items[<<"Name">>] = table

\* A GoogleBigQuery.Database call whose argument differs from the database
\* has been resolved.
C19_Witness ==
    /\ Finished
    /\ parse_tree = ThreeStepExpression(<<"GoogleBigQuery.Database">>, << <<"a">> >>,
                                        <<"b", WS, "c">>, <<"a">>, <<"b", WS, "c">>)
    /\ Len(LastResult.tables) = 1
    /\ LastResult.tables[1].datasource_server = <<"b", WS, "c">>

\* C20: for Source = AmazonRedshift.Database(server, db, ...) below the
\* item selectors Name = schema and Name = table every call returns exactly
\* one table, with name table, full_name db.schema.table and
\* datasource_server server; a detail of AmazonRedshift.Database with
\* fewer than two arguments gives an empty list, whatever its chain.
C20_RedshiftTable ==
    /\ results # <<>> =>
        \A arguments \in RedshiftArguments, schema \in Texts, table \in Texts :
            (/\ parse_tree = RedshiftExpression(arguments, schema, table)
             /\ Len(arguments) >= 2) =>
                \A i \in 1..Len(results) :
                    /\ results[i].exc = ""
                    /\ Len(results[i].tables) = 1
                    /\ results[i].tables[1].name = table
                    /\ results[i].tables[1].full_name
                           = arguments[2] \o <<Dot>> \o schema \o <<Dot>> \o table
                    /\ results[i].tables[1].datasource_server = arguments[1]
    /\ \A i \in 1..Len(table_links) :
           (/\ table_links[i].data_access_function_name = <<"AmazonRedshift.Database">>
            /\ Len(remove_whitespaces_from_list(ArgTokens(table_links[i].arg_list))) < 2)
               => Converted(i) = Return(<<>>)

\* An AmazonRedshift.Database call with three arguments and two different
\* selector names has been resolved.
C20_Witness ==
    /\ Finished
    /\ parse_tree = RedshiftExpression(<< <<"b", WS, "c">>, <<"a">>, <<"a">> >>,
                                       <<"a">>, <<"b", WS, "c">>)
    /\ Len(LastResult.tables) = 1

\* The frames of a Databricks.Catalogs detail all have a Kind and a Name,
\* and the kinds Database, Schema and Table are among them.
DatabricksComplete(i) ==
    /\ table_links[i].data_access_function_name = <<"Databricks.Catalogs">>
    /\ \A f \in FramesOf(i) : {<<"Kind">>, <<"Name">>} \subseteq DOMAIN heap[f].items
    /\ {<<"Database">>, <<"Schema">>, <<"Table">>} \subseteq KindsOf(i)

\* C21: for a Databricks.Catalogs detail whose chain has frames of the
\* kinds Database, Schema and Table, in any order and number, the strategy
\* returns exactly one table, with full_name Database.Schema.Table made of
\* the names of frames of those kinds and name the Table name; its
\* datasource_server is the first argument, or empty with fewer than two
\* arguments.
C21_DatabricksTable ==
    \A i \in 1..Len(table_links) :
        DatabricksComplete(i) =>
            LET r == Converted(i)
                arguments == strip_char_from_list(
                                 remove_whitespaces_from_list(
                                     ArgTokens(table_links[i].arg_list)))
            IN  /\ r.exc = ""
                /\ Len(r.tables) = 1
                /\ \E fd \in FramesOf(i), fs \in FramesOf(i), ft \in FramesOf(i) :
                       /\ heap[fd].items[<<"Kind">>] = <<"Database">>
                       /\ heap[fs].items[<<"Kind">>] = <<"Schema">>
                       /\ heap[ft].items[<<"Kind">>] = <<"Table">>
                       /\ r.tables[1].name = heap[ft].items[<<"Name">>]
                       /\ r.tables[1].full_name =
                              DotJoin(heap[fd].items[<<"Name">>],
                                      heap[fs].items[<<"Name">>],
                                      heap[ft].items[<<"Name">>])
                /\ r.tables[1].datasource_server =
                       IF Len(arguments) >= 2 THEN arguments[1] ELSE <<>>
                /\ r.tables[1].data_platform_pair = "DATABRICK_SQL"

\* A call on Databricks.Catalogs("h") below the selectors of the kinds
\* Database, Table and Schema, the Table frame not at an end of the chain,
\* has returned its table.
C21_Witness ==
    /\ Walked
    /\ Finished
    /\ Len(table_links) = 1
    /\ DatabricksComplete(1)
    /\ LET chain == Chain(heap, table_links[1].identifier_accessor)
       IN  /\ Len(chain) = 3
           /\ heap[chain[2]].items[<<"Kind">>] = <<"Table">>
    /\ Len(LastResult.tables) = 1
    /\ LastResult.tables[1].datasource_server = <<>>

\* The names of three parts.
ThreePartNames(names) ==
    LET ThreeParts(name) == Len(name) = 3
    IN  SelectSeq(names, ThreeParts)

\* C22: for Value.NativeQuery(P.Databases(..), sql) with P a supported
\* platform, the call returns one table for each name of three parts the
\* extractor gives for sql, in order, with full_name the name and name its
\* third part, and nothing for the other names; a Value.NativeQuery detail
\* with another number of arguments than two gives an empty list.
C22_NativeQueryThreePartNames ==
    /\ (Finished /\ Len(table_links) = 1) =>
        \A tag \in NativeQueryTags, names \in TableNameLists :
            (/\ table_links[1].data_access_function_name = <<"Value.NativeQuery">>
             /\ table_links[1].arg_list = NativeQueryArguments(tag, names)) =>
                LET kept == ThreePartNames(names)
                IN  /\ LastResult.exc = ""
                    /\ Len(LastResult.tables) = Len(kept)
                    /\ \A i \in 1..Len(kept) :
                        /\ LastResult.tables[i].full_name = JoinWith(kept[i], Dot)
                        /\ LastResult.tables[i].name = kept[i][3]
    /\ \A i \in 1..Len(table_links) :
           (/\ table_links[i].data_access_function_name = <<"Value.NativeQuery">>
            /\ Len(table_links[i].arg_list) # 2) => Converted(i) = Return(<<>>)

\* A native query that reads a name of two parts and one of three has been
\* resolved to one table.
C22_Witness ==
    /\ Finished
    /\ Len(table_links) = 1
    /\ table_links[1].data_access_function_name = <<"Value.NativeQuery">>
    /\ table_links[1].arg_list =
           NativeQueryArguments("AmazonRedshift",
                                << << <<"u">>, <<"n">> >>, << <<"d">>, <<"s">>, <<"t">> >> >>)
    /\ Len(LastResult.tables) = 1

\* An identifier reached from the output variable refers back to itself.
Cyclic == parse_tree.output_variable # <<>> /\ ~Acyclic

\* C23: on a statement set with a cycle reachable from the output variable
\* the walk never returns: while it runs there is always a call of
\* internal() left to make, whatever identifiers have been visited before,
\* and the call of resolve_to_data_platform_table_list never ends.
C23_CyclicWalkNeverReturns ==
    Cyclic =>
        /\ pc \in {"idle", "walk"}
        /\ pc = "walk" => calls # <<>>
        /\ results = <<>>

\* The walk on a cyclic statement set is deeper than the statements are
\* many, at an identifier that has a statement: it has been there before.
C23_Witness ==
    /\ Cyclic
    /\ pc = "walk"
    /\ calls # <<>>
    /\ Head(calls).depth > Cardinality(DOMAIN parse_tree.statements) + 1
    /\ HasStatement(Head(calls).current_identifier)

MSSqlNativeQuery(d) ==
    /\ d.data_access_function_name = <<"Sql.Database">>
    /\ Len(MSSqlArguments(d)) >= 4
    /\ MSSqlArguments(d)[3] = <<"Query">>

\* C25: for every name the extractor returns for the native query of a
\* Sql.Database call (bare, schema.table or db.schema.table), the table the
\* MS-SQL strategy gives is named by the last part of the name, and its
\* full name is db.schema.name, of exactly three parts, db being the second
\* argument of the call and schema defaulting to dbo.
C25_MSSqlNativeQueryNames ==
    (Walked /\ Finished /\ Len(table_links) = 1
        /\ MSSqlNativeQuery(table_links[1])) =>
        LET arguments == MSSqlArguments(table_links[1])
            tables == get_tables(arguments[4])
        IN  /\ LastResult.exc = ""
            /\ Len(LastResult.tables) = Len(tables)
            /\ \A i \in 1..Len(tables) :
                LET parts == Split(tables[i], Dot)
                    name == parts[Len(parts)]
                    schema == IF Len(parts) = 1 THEN <<"dbo">>
                              ELSE parts[Len(parts) - 1]
                IN  /\ LastResult.tables[i].name = name
                    /\ LastResult.tables[i].full_name =
                           DotJoin(arguments[2], schema, name)
                    /\ Len(Split(LastResult.tables[i].full_name, Dot)) = 3

RECURSIVE NativeQueryPlatforms(_)
\* For the details from the i-th on, in order: the platform of the tag of
\* the detail, once for every table its strategy gives.
NativeQueryPlatforms(i) ==
    IF i > Len(table_links) THEN <<>>
    ELSE [k \in 1..Len(Converted(i).tables) |->
             SUPPORTED_NATIVE_QUERY_DATA_PLATFORM[NativeQueryTag(table_links[i])]]
         \o NativeQueryPlatforms(i + 1)

\* Every detail is a Value.NativeQuery call of a supported platform.
OnlyNativeQueries ==
    \A i \in 1..Len(table_links) :
        /\ HasNativeQueryTag(table_links[i])
        /\ NativeQueryTag(table_links[i])
               \in DOMAIN SUPPORTED_NATIVE_QUERY_DATA_PLATFORM

\* C26: when every detail is a Value.NativeQuery call of a supported
\* platform, every call made so far returned, for each detail in order,
\* tables that carry the platform of the tag of that same detail, whatever
\* the tags of the details and of the calls before it.
C26_NativeQueryPlatformOfOwnTag ==
    (Walked /\ Finished /\ OnlyNativeQueries) =>
        \A r \in 1..Len(results) :
            /\ results[r].exc = ""
            /\ [k \in 1..Len(results[r].tables) |->
                   results[r].tables[k].data_platform_pair]
               = NativeQueryPlatforms(1)

\* Two calls have each resolved a Snowflake native query and then a
\* Redshift one, each to a table of its own platform.
C26_Witness ==
    /\ Walked
    /\ Finished
    /\ OnlyNativeQueries
    /\ Len(results) = 2
    /\ Len(table_links) = 2
    /\ NativeQueryTag(table_links[1]) = <<"Snowflake">>
    /\ NativeQueryTag(table_links[2]) = <<"AmazonRedshift">>
    /\ [k \in 1..Len(results[2].tables) |-> results[2].tables[k].data_platform_pair]
       = <<"SNOWFLAKE", "AMAZON_REDSHIFT">>

RECURSIVE PathCount(_, _, _)
\* The number of reference paths from an identifier to a data-access
\* statement, along the identifiers internal() calls itself with.
PathCount(identifier, target, fuel) ==
    IF fuel = 0 THEN 0
    ELSE IF identifier = target THEN 1
    ELSE IF IsDataAccess(identifier) THEN 0
    ELSE LET callees == Callees(identifier)
             below == [i \in 1..Len(callees) |->
                          PathCount(callees[i], target, fuel - 1)]
         IN  SumOver(below, 1..Len(callees))

\* The data-access statements of the expression.
DataAccessIdentifiers == {x \in DOMAIN parse_tree.statements : IsDataAccess(x)}

\* The details of table_links that come from the statement of an
\* identifier, or from a statement that reads the same.
DetailsOf(x) ==
    {i \in 1..Len(table_links) :
        /\ table_links[i].data_access_function_name
               = get_variable_statement(x).function_name
        /\ <<table_links[i].arg_list>> = get_variable_statement(x).arg_list}

\* C27: the walk keeps no record of the identifiers it has visited: a
\* data-access statement that the output variable reaches along k reference
\* paths gives k details, so that table_links has as many details as there
\* are paths from the output variable to data-access statements, and the
\* chain of each detail is that of the item selectors of its own path.
C27_OneDetailPerPath ==
    Walked =>
        LET root == parse_tree.output_variable[1]
            fuel == Cardinality(DOMAIN parse_tree.statements) + 1
            count == [x \in DataAccessIdentifiers |-> PathCount(root, x, fuel)]
            Alike(x) ==
                {y \in DataAccessIdentifiers :
                    get_variable_statement(y) = get_variable_statement(x)}
            paths == DiscoveryPaths(root, <<>>, fuel)
        IN  /\ Len(table_links) = SumOver(count, DataAccessIdentifiers)
            /\ \A x \in DataAccessIdentifiers :
                   Cardinality(DetailsOf(x)) = SumOver(count, Alike(x))
            /\ Len(paths) = Len(table_links)
            /\ \A i \in 1..Len(table_links) :
                   {heap[f].items : f \in FramesOf(i)}
                       = {get_item_selector_tokens(
                              get_variable_statement(paths[i][k]),
                              parameters).key_vs_value :
                             k \in 1..Len(paths[i])}

\* One data-access statement, reached through two branches with different
\* item selectors, has given two details with different chains.
C27_Witness ==
    /\ Walked
    /\ Cardinality(DataAccessIdentifiers) = 1
    /\ Len(table_links) = 2
    /\ \A x \in DataAccessIdentifiers : DetailsOf(x) = {1, 2}
    /\ table_links[1].identifier_accessor # 0
    /\ table_links[2].identifier_accessor # 0
    /\ heap[table_links[1].identifier_accessor].items
           # heap[table_links[2].identifier_accessor].items

\* gen_removed_entity_workunits has run.
Generated == generated # "pending"

\* fail_safe_threshold of the configuration.
Threshold == stateful_ingestion_config[1].fail_safe_threshold

\* Both checkpoints exist, and more than threshold percent of the urns of
\* the last state are missing from the current state.
ChangedBeyond(threshold) ==
    /\ last_checkpoint # <<>>
    /\ cur_checkpoint # <<>>
    /\ LET old == Cardinality(last_checkpoint[1])
           overlap == Cardinality(last_checkpoint[1] \cap cur_checkpoint[1])
       IN  old # 0 /\ (old - overlap) * 100 > threshold * old

\* The urns gen_removed_entity_workunits yielded a work unit for.
YieldedUrns == {workunits[i].id[2] : i \in 1..Len(workunits)}

\* The urns of the last state that are neither in the current state nor to
\* be skipped.
StaleNotSkipped ==
    {urn \in last_checkpoint[1] :
        /\ cur_checkpoint # <<>> => urn \notin cur_checkpoint[1]
        /\ urn \notin urns_to_skip}

\* C28, as stated: when checkpointing is enabled, a last checkpoint exists
\* and the percentage of entities changed is greater than a
\* fail_safe_threshold below 100, no soft-delete work unit is yielded and a
\* failure is reported; with a threshold of 100 no failure is reported and
\* the stale urns are yielded.
C28_FailSafe ==
    Generated =>
        /\ (/\ is_checkpointing_enabled
            /\ ChangedBeyond(Threshold)
            /\ Threshold < 100) =>
                /\ workunits = <<>>
                /\ report.failures # <<>>
        /\ (is_checkpointing_enabled /\ Threshold = 100) =>
                /\ report.failures = <<>>
                /\ (~ignore_old_state /\ last_checkpoint # <<>>
                        /\ cur_checkpoint # <<>>) =>
                       YieldedUrns = StaleNotSkipped

\* C28, amended: the same when ignore_old_state is not set; when it is set
\* nothing is yielded and no failure is reported.
C28_FailSafeUnlessOldStateIgnored ==
    Generated =>
        /\ (/\ is_checkpointing_enabled
            /\ ~ignore_old_state
            /\ ChangedBeyond(Threshold)
            /\ Threshold < 100) =>
                /\ workunits = <<>>
                /\ report.soft_deleted_stale_entities = <<>>
                /\ report.failures = <<"Stateful Ingestion">>
        /\ (is_checkpointing_enabled /\ ignore_old_state) =>
                /\ workunits = <<>>
                /\ report.failures = <<>>
        /\ (is_checkpointing_enabled /\ Threshold = 100) =>
                /\ report.failures = <<>>
                /\ (~ignore_old_state /\ last_checkpoint # <<>>
                        /\ cur_checkpoint # <<>>) =>
                       YieldedUrns = StaleNotSkipped

\* The fail-safe has kept back the soft deletion of two of the three urns
\* of the last state, at a threshold of 50.
C28_Witness ==
    /\ Generated
    /\ is_checkpointing_enabled
    /\ ~ignore_old_state
    /\ Threshold = 50
    /\ ChangedBeyond(50)
    /\ Cardinality(StaleNotSkipped) = 2
    /\ workunits = <<>>
    /\ report.failures = <<"Stateful Ingestion">>

\* The fail-safe keeps gen_removed_entity_workunits from soft deleting.
FailSafeHolds == ChangedBeyond(Threshold) /\ Threshold < 100

C30_DisallowedUsersFiltered ==
    \A key \in DOMAIN aggregation :
        /\ \A user \in Users :
               ~allowed(usage_config.user_email_pattern, user) =>
                   CountOf(aggregation[key].userFreq, user) = 0
        /\ aggregation[key].readCount = Total(aggregation[key].userFreq)
        /\ aggregation[key].queryCount = Total(aggregation[key].queryFreq)

====
